---- MODULE Spec2Model ----
(***************************************************************************)
(* Model of the CONTROL-QR-PERSONAL dashboard: js/mapa.js (geofences,      *)
(* point locator, sector aggregator), js/personal.js (officer provider,    *)
(* shipped in the same file) and js/alertas.js (alert provider).           *)
(*                                                                         *)
(* Conventions                                                             *)
(*  - A JavaScript string is a sequence of one-character strings; a CSS    *)
(*    colour is a one-token string (no character operation touches it).    *)
(*  - A JavaScript value is a record tagged by t: "undefined", "null",     *)
(*    "string", "number", "boolean", "array", "object", "timestamp" (a     *)
(*    Firestore Timestamp).                                                *)
(*  - Coordinates are integers counting tenths of a degree, so 10.5 deg is *)
(*    105; on such points the 1e-10 tolerance of onSegment separates       *)
(*    exactly zero from non-zero, and the comparisons are exact.           *)
(*  - A JavaScript Map is a sequence of [k, v] records in insertion order. *)
(*  - A Date is a number of milliseconds of local time since the epoch,    *)
(*    or NaN for an Invalid Date; the calendar is restricted to January    *)
(*    1970, so day d starts at (d-1)*DAY.                                  *)
(*  - A marker is modelled by its position, a layer by the keys of the     *)
(*    markers on it.                                                       *)
(***************************************************************************)
EXTENDS Integers, Sequences, FiniteSets, TLC

\* the field names of the records of the model, in the one order in which every
\* record lists them
FieldOrder ==
    [t |-> 0, op |-> 0, latestMap |-> 0, again |-> 0, id |-> 0, data |-> 0, k
     |-> 0, nan |-> 0, v |-> 0, a |-> 0, b |-> 0, s |-> 0, label |-> 0, num |->
     0, g |-> 0, nombre |-> 0, name |-> 0, color |-> 0, colour |-> 0, activo
     |-> 0, gpath |-> 0, path |-> 0, _color |-> 0, count |-> 0, threw |-> 0,
     counts |-> 0, latlngs |-> 0, bounds |-> 0, south |-> 0, north |-> 0, west
     |-> 0, east |-> 0, lat |-> 0, lng |-> 0, result |-> 0, snap |-> 0, byId
     |-> 0, layers |-> 0, coords |-> 0, latitud |-> 0, latitude |-> 0, longitud
     |-> 0, longitude |-> 0, long |-> 0, lon |-> 0, timestamp |-> 0, seconds
     |-> 0, fecha |-> 0, turno |-> 0, dni |-> 0, comentario |-> 0, createdAt
     |-> 0, when |-> 0, hasC |-> 0, latlng |-> 0, start |-> 0, end |-> 0, type
     |-> 0, docs |-> 0, markers |-> 0, before |-> 0,
     calls |-> 0, cb |-> 0, view |-> 0, layer |-> 0, legend |-> 0,
     usuarioCodigo |-> 0, by |-> 0, zoom |-> 0, popup |-> 0, now |-> 0,
     hora |-> 0]

(* ------------------------------------------------------------------ *)
(* Bounds of the model                                                 *)
(* ------------------------------------------------------------------ *)

\* longest geofence snapshot delivered
MaxGeofences == 2

\* most entities in a positions map handed to updateSectorCountsFrom
MaxEntities == 2

\* most documents in a snapshot of asistencias
MaxRecords == 2

\* most changes in a batch of alertas
MaxChanges == 2

\* the milliseconds of the session that are observed after the load
MaxElapsed == 420

(* ------------------------------------------------------------------ *)
(* JavaScript values                                                    *)
(* ------------------------------------------------------------------ *)

Undefined == [t |-> "undefined"]

Null == [t |-> "null"]

Str(s) == [t |-> "string", s |-> s]

Num(n) == [t |-> "number", nan |-> FALSE, v |-> n]

NaN == [t |-> "number", nan |-> TRUE, v |-> 0]

Arr(a) == [t |-> "array", a |-> a]

Bool(b) == [t |-> "boolean", b |-> b]

\* ToBoolean on the values the model uses
Truthy(x) ==
    CASE x.t = "undefined" -> FALSE
      [] x.t = "null"      -> FALSE
      [] x.t = "string"    -> x.s # <<>>
      [] x.t = "number"    -> ~x.nan /\ x.v # 0
      [] x.t = "boolean"   -> x.b
      [] OTHER             -> TRUE

\* a || b
Or(a, b) == IF Truthy(a) THEN a ELSE b

\* a ?? b
Coalesce(a, b) == IF a.t \in {"undefined", "null"} THEN b ELSE a


(* ------------------------------------------------------------------ *)
(* Map (insertion ordered)                                              *)
(* ------------------------------------------------------------------ *)

\* the sequence f with every element evaluated
SeqOf(f) == SubSeq(f, 1, Len(f))

MapKeys(m) == {m[i].k : i \in 1..Len(m)}

MapHas(m, key) == \E i \in 1..Len(m) : m[i].k = key

MapGet(m, key) == m[CHOOSE i \in 1..Len(m) : m[i].k = key].v

\* Map.prototype.set: an existing key keeps its position
MapSet(m, key, val) ==
    IF MapHas(m, key)
    THEN SeqOf([i \in 1..Len(m) |-> IF m[i].k = key THEN [k |-> key, v |-> val] ELSE m[i]])
    ELSE Append(m, [k |-> key, v |-> val])

MapValues(m) == SeqOf([i \in 1..Len(m) |-> m[i].v])

(* ------------------------------------------------------------------ *)
(* Characters and numbers                                               *)
(* ------------------------------------------------------------------ *)

DigitChars == <<"0","1","2","3","4","5","6","7","8","9">>

IsDigit(c) == c \in {"0","1","2","3","4","5","6","7","8","9"}

DigitVal(c) == (CHOOSE i \in 1..10 : DigitChars[i] = c) - 1

IsSpace(c) == c = " "

\* length of the longest prefix of s[from..] made of digits
RECURSIVE DigitRun(_, _)
DigitRun(s, from) ==
    IF from <= Len(s) /\ IsDigit(s[from]) THEN 1 + DigitRun(s, from + 1) ELSE 0

\* value of a sequence of digits read in base 10
RECURSIVE DigitsValue(_)
DigitsValue(ds) ==
    IF ds = <<>> THEN 0
    ELSE 10 * DigitsValue(SubSeq(ds, 1, Len(ds) - 1)) + DigitVal(ds[Len(ds)])

\* Number.prototype.toString of a non-negative integer
RECURSIVE IntToString(_)
IntToString(n) ==
    IF n < 10 THEN <<DigitChars[n + 1]>>
    ELSE IntToString(n \div 10) \o <<DigitChars[(n % 10) + 1]>>

\* String(x); a number of the model that is turned into a string is a
\* non-negative integer
JsString(x) ==
    CASE x.t = "string"    -> x.s
      [] x.t = "undefined" -> <<"u","n","d","e","f","i","n","e","d">>
      [] x.t = "null"      -> <<"n","u","l","l">>
      [] x.t = "number"    -> IF x.nan THEN <<"N","a","N">> ELSE IntToString(x.v)
      [] OTHER             -> <<>>

\* String.prototype.replace(",", "."): the first comma only
ReplaceFirstComma(s) ==
    IF \E i \in 1..Len(s) : s[i] = ","
    THEN LET i == CHOOSE j \in 1..Len(s) : s[j] = "," /\ \A h \in 1..(j-1) : s[h] # ","
         IN  SeqOf([j \in 1..Len(s) |-> IF j = i THEN "." ELSE s[j]])
    ELSE s

\* first index at or after from that holds no space
RECURSIVE SkipSpaces(_, _)
SkipSpaces(s, from) ==
    IF from <= Len(s) /\ IsSpace(s[from]) THEN SkipSpaces(s, from + 1) ELSE from

\* parseFloat, in tenths: leading spaces, a sign, digits, a point and digits; the
\* longest numeric prefix is read and the rest ignored; no digits at all is NaN.
\* Only the first fractional digit is kept (the inputs carry at most one).
ParseFloat(s) ==
    LET i0   == SkipSpaces(s, 1)
        neg  == i0 <= Len(s) /\ s[i0] = "-"
        i1   == IF i0 <= Len(s) /\ s[i0] \in {"-", "+"} THEN i0 + 1 ELSE i0
        nInt == DigitRun(s, i1)
        i2   == i1 + nInt
        dot  == i2 <= Len(s) /\ s[i2] = "."
        nFr  == IF dot THEN DigitRun(s, i2 + 1) ELSE 0
        int  == DigitsValue(SubSeq(s, i1, i2 - 1))
        fr   == IF nFr > 0 THEN DigitVal(s[i2 + 1]) ELSE 0
        mag  == 10 * int + fr
    IN  IF nInt = 0 /\ nFr = 0 THEN NaN ELSE Num(IF neg THEN 0 - mag ELSE mag)

\* mapa.js toNum
toNum(v) ==
    IF v.t = "number" THEN v ELSE ParseFloat(ReplaceFirstComma(JsString(v)))

\* String.prototype.trim
RECURSIVE TrimEnd(_)
TrimEnd(s) ==
    IF s # <<>> /\ IsSpace(s[Len(s)]) THEN TrimEnd(SubSeq(s, 1, Len(s) - 1)) ELSE s

Trim(s) == TrimEnd(SubSeq(s, SkipSpaces(s, 1), Len(s)))

\* String.prototype.includes
Includes(hay, needle) ==
    \E i \in 1..(Len(hay) + 1) :
        /\ i + Len(needle) - 1 <= Len(hay)
        /\ SubSeq(hay, i, i + Len(needle) - 1) = needle

\* normalize("NFD") followed by the removal of \p{Diacritic}: an accented
\* letter loses its mark, any other character is kept
StripDiacritic(c) ==
    CASE c = "á" -> "a" [] c = "é" -> "e" [] c = "í" -> "i" [] c = "ó" -> "o"
      [] c = "ú" -> "u" [] c = "ñ" -> "n" [] c = "É" -> "E" [] c = "Á" -> "A"
      [] OTHER -> c

\* toLowerCase on the letters the model uses
LowerChar(c) ==
    CASE c = "A" -> "a" [] c = "E" -> "e" [] c = "J" -> "j" [] c = "N" -> "n"
      [] c = "O" -> "o" [] c = "S" -> "s" [] c = "Z" -> "z" [] c = "L" -> "l"
      [] OTHER -> c

\* mapa.js norm: (s ?? "") without marks, trimmed, lower case
norm(x) ==
    LET s0 == JsString(Coalesce(x, Str(<<>>)))
        s1 == SeqOf([i \in 1..Len(s0) |-> StripDiacritic(s0[i])])
        s2 == Trim(s1)
    IN  SeqOf([i \in 1..Len(s2) |-> LowerChar(s2[i])])

(* ------------------------------------------------------------------ *)
(* Dates, shifts and coordinates (helpers exported by mapa.js)          *)
(* ------------------------------------------------------------------ *)

MINUTE == 60 * 1000

HOUR == 60 * MINUTE

DAY == 24 * HOUR

\* an Invalid Date: its time value is NaN
InvalidDate == NaN

\* a >= b on Dates or numbers: false when either side is NaN
GreaterEq(a, b) == ~a.nan /\ ~b.nan /\ a.v >= b.v

\* a < b on Dates or numbers: false when either side is NaN
Less(a, b) == ~a.nan /\ ~b.nan /\ a.v < b.v

\* a > b on Dates or numbers: false when either side is NaN
Greater(a, b) == ~a.nan /\ ~b.nan /\ a.v > b.v

\* String.prototype.split on any one of the separator characters
RECURSIVE Split(_, _)
Split(s, seps) ==
    IF \E i \in 1..Len(s) : s[i] \in seps
    THEN LET i == CHOOSE j \in 1..Len(s) : s[j] \in seps /\ \A h \in 1..(j-1) : s[h] \notin seps
         IN  <<SubSeq(s, 1, i - 1)>> \o Split(SubSeq(s, i + 1, Len(s)), seps)
    ELSE <<s>>

\* the unary + of n => +n on a string: blank is 0, a run of digits is its
\* value, anything else NaN (no sign, point or exponent occurs in the inputs)
ToNumber(s) ==
    LET x == Trim(s)
    IN  IF x = <<>> THEN Num(0)
        ELSE IF DigitRun(x, 1) = Len(x) THEN Num(DigitsValue(x))
        ELSE NaN

\* element i of the parts of a split, read through +n: a missing element is
\* undefined, and +undefined is NaN
PartNumber(parts, i) == IF i <= Len(parts) THEN ToNumber(parts[i]) ELSE NaN

\* days of a common year before the month of index m (0 = January)
DaysBeforeMonth(m) == <<0, 31, 59, 90, 120, 151, 181, 212, 243, 273, 304, 334>>[m + 1]

\* new Date(y, m, d, 0, 0, 0, 0), local time: NaN in any field gives an Invalid
\* Date, a year 0..99 means 1900 + y; exact for the common years 1970 and 1971
NewDate(y, m, d) ==
    IF y.nan \/ m.nan \/ d.nan THEN InvalidDate
    ELSE LET year == IF y.v >= 0 /\ y.v <= 99 THEN 1900 + y.v ELSE y.v
         IN  Num(((year - 1970) * 365 + DaysBeforeMonth(m.v) + d.v - 1) * DAY)

\* Date.prototype.getFullYear, getMonth and getDate, on the dates of January 1970
getFullYear(ms) == 1970

getMonth(ms) == 0

getDate(ms) == (ms \div DAY) + 1

\* Date.prototype.getHours
getHours(ms) == (ms % DAY) \div HOUR

\* String(n).padStart(2, "0")
PadStart2(n) == IF n < 10 THEN <<"0">> \o IntToString(n) ELSE IntToString(n)

\* new Date(string): a local date-time "YYYY-MM-DDTHH:mm" is read, any other
\* string of the inputs is unparseable and gives an Invalid Date
DateParse(s) ==
    IF /\ Len(s) = 16
       /\ s[5] = "-" /\ s[8] = "-" /\ s[11] = "T" /\ s[14] = ":"
       /\ \A i \in {1, 2, 3, 4, 6, 7, 9, 10, 12, 13, 15, 16} : IsDigit(s[i])
    THEN LET base == NewDate(Num(DigitsValue(SubSeq(s, 1, 4))),
                             Num(DigitsValue(SubSeq(s, 6, 7)) - 1),
                             Num(DigitsValue(SubSeq(s, 9, 10))))
         IN  Num(base.v + DigitsValue(SubSeq(s, 12, 13)) * HOUR
                        + DigitsValue(SubSeq(s, 15, 16)) * MINUTE)
    ELSE InvalidDate

\* parseFecha: "2025-09-11" -> Date at 00:00:00 local time
parseFecha(v) ==
    LET parts == Split(v, {"-"})
        m     == PartNumber(parts, 2)
    IN  NewDate(PartNumber(parts, 1), IF m.nan THEN NaN ELSE Num(m.v - 1), PartNumber(parts, 3))

\* an intervaloTurno whose night shift and whole day end on the day of base
intervaloTurnoSameDay(base, turno) ==
    IF base.nan THEN [start |-> InvalidDate, end |-> InvalidDate]
    ELSE LET day == base.v - (base.v % DAY)
         IN  CASE turno = "t1" -> [start |-> Num(day + 7 * HOUR),  end |-> Num(day + 15 * HOUR)]
               [] turno = "t2" -> [start |-> Num(day + 15 * HOUR), end |-> Num(day + 23 * HOUR)]
               [] turno = "t3" -> [start |-> Num(day + 23 * HOUR), end |-> Num(day + 7 * HOUR)]
               [] OTHER        -> [start |-> Num(day),             end |-> Num(day)]

\* intervaloTurno: the window of a shift on the day of base
intervaloTurno(base, turno) ==
    IF base.nan THEN [start |-> InvalidDate, end |-> InvalidDate]
    ELSE LET day == base.v - (base.v % DAY)
         IN  CASE turno = "t1" -> [start |-> Num(day + 7 * HOUR),  end |-> Num(day + 15 * HOUR)]
               [] turno = "t2" -> [start |-> Num(day + 15 * HOUR), end |-> Num(day + 23 * HOUR)]
               [] turno = "t3" -> [start |-> Num(day + 23 * HOUR), end |-> Num(day + DAY + 7 * HOUR)]
               [] OTHER        -> [start |-> Num(day),             end |-> Num(day + DAY)]

\* todayTurnDefaults at the instant now: before 06:00 the base is yesterday
todayTurnDefaults(now) ==
    LET h    == getHours(now)
        base == IF h < 6 THEN now - DAY ELSE now
    IN  [fecha |-> IntToString(getFullYear(base)) \o <<"-">> \o PadStart2(getMonth(base) + 1)
                       \o <<"-">> \o PadStart2(getDate(base)),
         turno |-> IF h < 6 THEN "t3" ELSE IF h < 14 THEN "t1" ELSE IF h < 22 THEN "t2" ELSE "t3"]

\* getCoords without the range test
getCoordsAnyRange(o) ==
    LET lat == toNum(Coalesce(o.lat, Coalesce(o.latitude, o.latitud)))
        lng == toNum(Coalesce(o.lng, Coalesce(o.long, Coalesce(o.lon,
                     Coalesce(o.longitude, o.longitud)))))
    IN  IF lat.nan \/ lng.nan THEN Null ELSE Arr(<<lat.v, lng.v>>)

\* getCoords: [lat, lng] from the first field variant present, or null
getCoords(o) ==
    LET lat == toNum(Coalesce(o.lat, Coalesce(o.latitude, o.latitud)))
        lng == toNum(Coalesce(o.lng, Coalesce(o.long, Coalesce(o.lon,
                     Coalesce(o.longitude, o.longitud)))))
    IN  IF \/ lat.nan \/ lng.nan
           \/ lat.v < 0 - 900 \/ lat.v > 900
           \/ lng.v < 0 - 1800 \/ lng.v > 1800
        THEN Null
        ELSE Arr(<<lat.v, lng.v>>)

\* a Firestore Timestamp: an object with toDate()
Timestamp(ms) == [t |-> "timestamp", seconds |-> ms \div 1000]

\* getWhenS: the date of an attendance record
getWhenS(d) ==
    LET t == d.timestamp
    IN  IF t.t = "timestamp" THEN Num(t.seconds * 1000)
        ELSE IF t.t = "object" /\ t.seconds.t = "number"
             THEN (IF t.seconds.nan THEN InvalidDate ELSE Num(t.seconds.v * 1000))
        ELSE IF t.t = "string" /\ ~DateParse(t.s).nan THEN DateParse(t.s)
        ELSE IF Truthy(d.fecha)
             THEN LET parts == Split(JsString(d.fecha), {"/", "-"})
                      mm    == PartNumber(parts, 2)
                  IN  NewDate(PartNumber(parts, 3),
                              IF mm.nan THEN NaN ELSE Num(mm.v - 1),
                              PartNumber(parts, 1))
        ELSE Num(0)

\* getWhenA: the date of an alert
getWhenA(d) ==
    LET ct == d.createdAt
    IN  IF ct.t = "timestamp" THEN Num(ct.seconds * 1000)
        ELSE IF ct.t = "object" /\ ct.seconds.t = "number"
             THEN (IF ct.seconds.nan THEN InvalidDate ELSE Num(ct.seconds.v * 1000))
        ELSE IF ct.t = "number" THEN ct
        ELSE IF ct.t = "string" /\ ~DateParse(ct.s).nan THEN DateParse(ct.s)
        ELSE Num(0)

(* ------------------------------------------------------------------ *)
(* Sector number and label                                              *)
(* ------------------------------------------------------------------ *)

\* stands for Number.POSITIVE_INFINITY: above every sector number
POSITIVE_INFINITY == 1000000

\* index of the first digit of s at or after from, or 0
RECURSIVE FirstDigitFrom(_, _)
FirstDigitFrom(s, from) ==
    IF from > Len(s) THEN 0
    ELSE IF IsDigit(s[from]) THEN from
    ELSE FirstDigitFrom(s, from + 1)

\* index of the first digit of s, or 0: where /(\d+)/ starts to match
FirstDigit(s) == FirstDigitFrom(s, 1)

\* sectorNumber: parseInt of the first run of digits of String(name || ""),
\* or +Infinity
sectorNumber(name) ==
    LET s == JsString(Or(name, Str(<<>>)))
        i == FirstDigit(s)
    IN  IF i = 0 THEN POSITIVE_INFINITY
        ELSE DigitsValue(SubSeq(s, i, i + DigitRun(s, i) - 1))

\* the value of g?.nombre || g?.name: the stored geofence has no name field
NombreOrName(g) == Or(g.nombre, Undefined)

\* a label that keeps the digits as the name writes them ("S04"), without parseInt
sectorLabelAsWritten(g) ==
    LET s == JsString(Or(NombreOrName(g), Str(<<>>)))
        i == FirstDigit(s)
    IN  IF i = 0 THEN Or(NombreOrName(g), Str(<<"S","e","c","t","o","r">>)).s
        ELSE <<"S">> \o SubSeq(s, i, i + DigitRun(s, i) - 1)

\* sectorLabel: "S<n>" when the name holds a number, else the name, else "Sector"
sectorLabel(g) ==
    LET n == sectorNumber(NombreOrName(g))
    IN  IF n # POSITIVE_INFINITY
        THEN <<"S">> \o IntToString(n)
        ELSE Or(NombreOrName(g), Str(<<"S","e","c","t","o","r">>)).s

\* a comparator that never answers 0: equal keys compare as greater
CompareNumNoTie(a, b) == IF a < b THEN 0 - 1 ELSE 1

\* the sign a sort comparator (a, b) => a - b hands to Array.prototype.sort:
\* Infinity - Infinity is NaN, which sort reads as +0
CompareNum(a, b) ==
    IF a = POSITIVE_INFINITY /\ b = POSITIVE_INFINITY THEN 0
    ELSE IF a < b THEN 0 - 1
    ELSE IF a > b THEN 1
    ELSE 0

\* Array.prototype.sort of records by their num field with the comparator
\* (a, b) => a.num - b.num: stable, each element goes after the last one that
\* does not compare greater
RECURSIVE SortByNum(_)
SortByNum(items) ==
    IF items = <<>> THEN <<>>
    ELSE LET n    == Len(items)
             init == SortByNum(SubSeq(items, 1, n - 1))
             x    == items[n]
             pos  == Cardinality({i \in 1..Len(init) : CompareNum(init[i].num, x.num) <= 0})
         IN  SubSeq(init, 1, pos) \o <<x>> \o SubSeq(init, pos + 1, Len(init))

(* ------------------------------------------------------------------ *)
(* State                                                                *)
(* ------------------------------------------------------------------ *)

VARIABLES
    geofenceById,      \* mapa.js: Map id -> { id, nombre, color, path, _color }
    geofenceLayers,    \* mapa.js: Map id -> Leaflet polygon (rings, bounds, style)
    chips,             \* mapa.js: the chips of #chipsSectors, in display order
    lastCountMap,      \* the count map last handed to renderSectorLegend
    lastCall,          \* the last operation performed, its input and outcome
    docsS,             \* personal.js: Map idDoc -> { data, when }
    markersS,          \* personal.js: Map key -> { marker }, a marker by its position
    capaSerenos,       \* the keys of the markers on the officer layer
    countSerenos,      \* text of #countSerenos
    lastLatestSerenos, \* personal.js: the latest map of the last rebuild
    fechaSerenos,      \* value of #fechaSerenos
    turnoSerenos,      \* value of the checked radio of turnoSerenos
    buscador,          \* value of #buscador
    soloComentario,    \* #soloComentario is checked
    debounceTimer,     \* the timer of debounce(rebuildSerenos, 140) is pending
    timerDue,          \* the instant the pending timer is due at, 0 when none is pending
    listenersS,        \* personal.js: the Set listeners, in insertion order
    docsA,             \* alertas.js: Map id -> { id, data, when }
    markersA,          \* alertas.js: Map id -> marker, a marker by its position
    capaAlertas,       \* the ids of the markers on the alert layer
    countAlertas,      \* text of #countAlertas
    initialized,       \* alertas.js: the first snapshot has been processed
    alertMode,         \* value of the checked radio of alertMode
    fechaAlertas,      \* value of #fechaAlertas
    turnoAlertas,      \* value of the checked radio of turnoAlertas
    listenersA,        \* alertas.js: the Set listeners, in insertion order
    flights,           \* the calls of map.flyTo of the last run of the alert listener
    upstreamS,         \* the documents of the query on asistencias, as last delivered
    upstreamA,         \* the documents of the collection alertas, as last delivered
    now                \* the clock: milliseconds since the epoch

sectorVars == <<geofenceById, geofenceLayers, chips, lastCountMap>>

officerVars == <<docsS, markersS, capaSerenos, countSerenos, lastLatestSerenos,
                 fechaSerenos, turnoSerenos, buscador, soloComentario, debounceTimer, timerDue,
                 listenersS, upstreamS>>

alertVars == <<docsA, markersA, capaAlertas, countAlertas, initialized,
               alertMode, fechaAlertas, turnoAlertas, now, listenersA, flights,
               upstreamA>>

(* ------------------------------------------------------------------ *)
(* Point locator                                                        *)
(* ------------------------------------------------------------------ *)

\* onSegment without the test on dot: every point of the line through the
\* segment counts as on it
onSegmentWholeLine(px, py, x1, y1, x2, y2) ==
    (px - x1) * (y2 - y1) - (py - y1) * (x2 - x1) = 0

\* onSegment with eps = 1e-10 on integer coordinates: |cross| > eps is
\* cross # 0 and dot <= eps is dot <= 0
onSegment(px, py, x1, y1, x2, y2) ==
    LET cross == (px - x1) * (y2 - y1) - (py - y1) * (x2 - x1)
        dot   == (px - x1) * (px - x2) + (py - y1) * (py - y2)
    IN  IF cross # 0 THEN FALSE ELSE dot <= 0

\* lng < (xj - xi) * (lat - yi) / (yj - yi) + xi, cleared of the division;
\* evaluated only when yi # yj
RayLeftOfEdge(lat, lng, xi, yi, xj, yj) ==
    IF yj - yi > 0
    THEN (lng - xi) * (yj - yi) < (xj - xi) * (lat - yi)
    ELSE (lng - xi) * (yj - yi) > (xj - xi) * (lat - yi)

\* the loop of pointInRing from index i on, j being the vertex before i
RECURSIVE pointInRingFrom(_, _, _, _, _, _)
pointInRingFrom(lat, lng, ring, i, j, inside) ==
    IF i > Len(ring) THEN inside
    ELSE LET xi == ring[i].lng
             yi == ring[i].lat
             xj == ring[j].lng
             yj == ring[j].lat
             intersect == /\ (yi > lat) # (yj > lat)
                          /\ RayLeftOfEdge(lat, lng, xi, yi, xj, yj)
         IN  IF onSegment(lng, lat, xi, yi, xj, yj) THEN TRUE
             ELSE pointInRingFrom(lat, lng, ring, i + 1, i,
                                  IF intersect THEN ~inside ELSE inside)

\* pointInRing: ray casting, the border counting as inside
pointInRing(lat, lng, ring) ==
    pointInRingFrom(lat, lng, ring, 1, Len(ring), FALSE)

\* poly.getBounds().contains([lat, lng]): the box of the polygon's points,
\* its border included
BoundsContains(poly, lat, lng) ==
    /\ poly.bounds.south <= lat /\ lat <= poly.bounds.north
    /\ poly.bounds.west  <= lng /\ lng <= poly.bounds.east

\* the ring loop of sectorOfPoint for one polygon
RingHit(poly, lat, lng) ==
    \E r \in 1..Len(poly.latlngs) :
        Len(poly.latlngs[r]) >= 3 /\ pointInRing(lat, lng, poly.latlngs[r])

\* the polygon loop of sectorOfPoint from index i on
RECURSIVE sectorOfPointFrom(_, _, _, _, _)
sectorOfPointFrom(byId, layers, lat, lng, i) ==
    IF i > Len(layers) THEN Null
    ELSE LET id   == layers[i].k
             poly == layers[i].v
         IN  IF ~BoundsContains(poly, lat, lng)
             THEN sectorOfPointFrom(byId, layers, lat, lng, i + 1)
             ELSE IF ~MapHas(byId, id)
             THEN sectorOfPointFrom(byId, layers, lat, lng, i + 1)
             ELSE IF RingHit(poly, lat, lng)
             THEN [t |-> "hit", id |-> id, g |-> MapGet(byId, id)]
             ELSE sectorOfPointFrom(byId, layers, lat, lng, i + 1)

\* sectorOfPoint that keeps looking after a hit: the last polygon that passes wins
RECURSIVE sectorOfPointLastFrom(_, _, _, _, _)
sectorOfPointLastFrom(byId, layers, lat, lng, i) ==
    IF i < 1 THEN Null
    ELSE IF /\ BoundsContains(layers[i].v, lat, lng)
            /\ MapHas(byId, layers[i].k)
            /\ RingHit(layers[i].v, lat, lng)
    THEN [t |-> "hit", id |-> layers[i].k, g |-> MapGet(byId, layers[i].k)]
    ELSE sectorOfPointLastFrom(byId, layers, lat, lng, i - 1)

sectorOfPointLast(byId, layers, lat, lng) ==
    sectorOfPointLastFrom(byId, layers, lat, lng, Len(layers))

\* sectorOfPoint(lat, lng) on the geofence state (byId, layers)
sectorOfPoint(byId, layers, lat, lng) ==
    sectorOfPointFrom(byId, layers, lat, lng, 1)

(* ------------------------------------------------------------------ *)
(* Sector aggregator                                                    *)
(* ------------------------------------------------------------------ *)

GREY == <<"#9ca3af">>

\* the value of g._color || g.color || "#9ca3af"
ChipColor(g) == Or(g._color, Or(g.color, Str(GREY))).s

\* the entry baseSectorCountMap makes for geofence g
BaseEntry(g) ==
    LET lab == sectorLabel(g)
    IN  [label |-> lab,
         num   |-> sectorNumber(g.nombre),
         name  |-> Or(NombreOrName(g), Str(lab)).s,
         color |-> ChipColor(g),
         count |-> 0]

\* the loop of baseSectorCountMap over the ordered geofences
RECURSIVE BaseFill(_, _)
BaseFill(ordered, map) ==
    IF ordered = <<>> THEN map
    ELSE BaseFill(Tail(ordered),
                  MapSet(map, sectorLabel(Head(ordered).g), BaseEntry(Head(ordered).g)))

\* a base map that is the count map of the previous pass, never reset
baseSectorCountMapReused(byId) == lastCountMap

\* baseSectorCountMap: one zero entry per label, geofences taken by sector number
baseSectorCountMap(byId) ==
    LET vals    == MapValues(byId)
        keyed   == SeqOf([i \in 1..Len(vals) |->
                          [num |-> sectorNumber(vals[i].nombre), g |-> vals[i]]])
    IN  BaseFill(SortByNum(keyed), <<>>)

\* renderSectorLegend: the chips (label, colour, count) sorted by num
renderSectorLegend(countMap) ==
    LET arr == SortByNum(MapValues(countMap))
    IN  SeqOf([i \in 1..Len(arr) |->
            [label |-> arr[i].label, color |-> arr[i].color, count |-> arr[i].count]])

\* an iteration that stores count 1 on every hit instead of incrementing
CountOneSetsOne(byId, layers, counts, info) ==
    LET s == sectorOfPoint(byId, layers, info.coords.a[1], info.coords.a[2])
    IN  IF s = Null THEN counts
        ELSE MapSet(counts, sectorLabel(s.g),
                    [label |-> sectorLabel(s.g),
                     num   |-> sectorNumber(s.g.nombre),
                     name  |-> Or(s.g.nombre, Str(sectorLabel(s.g))).s,
                     color |-> Or(s.g._color, Str(GREY)).s,
                     count |-> 1])

\* one iteration of the loop of updateSectorCountsFrom over an entry whose
\* coords destructure
CountOne(byId, layers, counts, info) ==
    LET s == sectorOfPoint(byId, layers, info.coords.a[1], info.coords.a[2])
    IN  IF s = Null THEN counts
        ELSE LET lab == sectorLabel(s.g)
             IN  IF MapHas(counts, lab)
                 THEN MapSet(counts, lab,
                             [MapGet(counts, lab) EXCEPT !.count = @ + 1])
                 ELSE MapSet(counts, lab,
                             [label |-> lab,
                              num   |-> sectorNumber(s.g.nombre),
                              name  |-> Or(s.g.nombre, Str(lab)).s,
                              color |-> Or(s.g._color, Str(GREY)).s,
                              count |-> 1])

\* the loop of updateSectorCountsFrom: const [lat, lng] = info.coords throws a
\* TypeError when coords is undefined, which ends the call
RECURSIVE CountLoop(_, _, _, _)
CountLoop(byId, layers, latestMap, counts) ==
    IF latestMap = <<>> THEN [threw |-> FALSE, counts |-> counts]
    ELSE LET info == Head(latestMap).v
         IN  IF info.coords.t # "array"
             THEN [threw |-> TRUE, counts |-> counts]
             ELSE CountLoop(byId, layers, Tail(latestMap),
                            CountOne(byId, layers, counts, info))

\* updateSectorCountsFrom without the early return on an empty geofenceLayers
updateSectorCountsFromNoGuard(byId, layers, latestMap) ==
    CountLoop(byId, layers, latestMap, baseSectorCountMap(byId))

\* updateSectorCountsFrom(latestMap): the count map it renders, or threw
updateSectorCountsFrom(byId, layers, latestMap) ==
    IF Len(layers) = 0
    THEN [threw |-> FALSE, counts |-> baseSectorCountMap(byId)]
    ELSE CountLoop(byId, layers, latestMap, baseSectorCountMap(byId))

(* ------------------------------------------------------------------ *)
(* Geofences: drawing and the snapshot handler                          *)
(* ------------------------------------------------------------------ *)

\* parsePath: the points of an array, each coordinate through toNum, the
\* pairs with a NaN dropped
parsePath(arr) ==
    LET pts  == IF arr.t = "array" THEN arr.a ELSE <<>>
        nums == SeqOf([i \in 1..Len(pts) |->
                       [lat |-> toNum(pts[i].lat), lng |-> toNum(pts[i].lng)]])
        keep == SelectSeq(nums, LAMBDA q : ~q.lat.nan /\ ~q.lng.nan)
    IN  SeqOf([i \in 1..Len(keep) |-> [lat |-> keep[i].lat.v, lng |-> keep[i].lng.v]])

defaultColors ==
    << <<"#ef4444">>, <<"#f59e0b">>, <<"#10b981">>, <<"#3b82f6">>,
       <<"#8b5cf6">>, <<"#ec4899">>, <<"#22c55e">> >>

\* the path closed when it has more than 2 points and does not end where it starts
ClosePath(path) ==
    IF Len(path) > 2 /\ path[1] # path[Len(path)] THEN Append(path, path[1]) ELSE path

SeqMin(xs) == CHOOSE m \in {xs[i] : i \in 1..Len(xs)} : \A i \in 1..Len(xs) : m <= xs[i]

SeqMax(xs) == CHOOSE m \in {xs[i] : i \in 1..Len(xs)} : \A i \in 1..Len(xs) : m >= xs[i]

\* L.polygon(closed, style) / setLatLngs(closed): Leaflet drops a last point equal
\* to the first, keeps the polygon as a list of rings and bounds all its points
LeafletPolygon(closed, color) ==
    LET n    == Len(closed)
        ring == IF n >= 2 /\ closed[1] = closed[n] THEN SubSeq(closed, 1, n - 1) ELSE closed
        lats == [i \in 1..n |-> closed[i].lat]
        lngs == [i \in 1..n |-> closed[i].lng]
    IN  [color   |-> color,
         latlngs |-> <<ring>>,
         bounds  |-> [south |-> SeqMin(lats), north |-> SeqMax(lats),
                      west  |-> SeqMin(lngs), east  |-> SeqMax(lngs)]]

\* a drawOneGeofence that gives every geofence without colour the first
\* colour of the palette
drawOneGeofenceFirstColor(layers, g, idx) ==
    LET path  == parsePath(Or(g.path, Arr(<<>>)))
        color == Or(g.color, Str(defaultColors[1]))
    IN  IF Len(path) = 0 THEN [g |-> g, layers |-> layers]
        ELSE [g      |-> [g EXCEPT !._color = color],
              layers |-> MapSet(layers, g.id, LeafletPolygon(ClosePath(path), color.s))]

\* drawOneGeofence(g, idx): the geofence with its _color and the polygon layers
\* after the call; a geofence whose parsed path is empty is left undrawn
drawOneGeofence(layers, g, idx) ==
    LET path  == parsePath(Or(g.path, Arr(<<>>)))
        color == Or(g.color, Str(defaultColors[(idx % Len(defaultColors)) + 1]))
    IN  IF Len(path) = 0 THEN [g |-> g, layers |-> layers]
        ELSE [g      |-> [g EXCEPT !._color = color],
              layers |-> MapSet(layers, g.id, LeafletPolygon(ClosePath(path), color.s))]

\* the geofence record the handler builds from a document that is not inactive
GeofenceOfDoc(doc) ==
    [id     |-> doc.id,
     nombre |-> Or(doc.data.nombre, doc.data.name),
     color  |-> Or(doc.data.color, doc.data.colour),
     path   |-> Or(Or(doc.data.gpath, doc.data.path), Arr(<<>>)),
     _color |-> Undefined]

\* a handler that keeps every document, inactive ones included
ActiveDocsAll(snap) == snap

\* the documents the handler keeps: activo === false excludes
ActiveDocs(snap) ==
    SelectSeq(snap, LAMBDA doc : ~(doc.data.activo.t = "boolean" /\ ~doc.data.activo.b))

\* docs.forEach((g, i) => { geofenceById.set(g.id, g); drawOneGeofence(g, i); })
RECURSIVE DrawAll(_, _, _, _)
DrawAll(docs, i, byId, layers) ==
    IF i > Len(docs) THEN [byId |-> byId, layers |-> layers]
    ELSE LET d == drawOneGeofence(layers, GeofenceOfDoc(docs[i]), i - 1)
         IN  DrawAll(docs, i + 1, MapSet(byId, docs[i].id, d.g), d.layers)

\* a handler that clears the store and leaves the polygons of the previous
\* snapshot in the layer set
GeofencesSnapshotKeepsLayers(snap) ==
    \E drawn \in {DrawAll(ActiveDocs(snap), 1, <<>>, geofenceLayers)} :
    \E base \in {baseSectorCountMap(drawn.byId)} :
        /\ geofenceById' = drawn.byId
        /\ geofenceLayers' = drawn.layers
        /\ lastCountMap' = base
        /\ chips' = renderSectorLegend(base)
        /\ lastCall' = [op |-> "geofencesSnapshot", snap |-> snap,
                        before |-> MapKeys(geofenceById)]
        /\ UNCHANGED officerVars
        /\ UNCHANGED alertVars

\* a handler that ends by recounting the cached officers instead of
\* rendering the base map
GeofencesSnapshotRecounting(snap) ==
    \E drawn \in {DrawAll(ActiveDocs(snap), 1, <<>>, <<>>)} :
    \E r \in {updateSectorCountsFrom(drawn.byId, drawn.layers, lastLatestSerenos)} :
        /\ geofenceById' = drawn.byId
        /\ geofenceLayers' = drawn.layers
        /\ lastCountMap' = r.counts
        /\ chips' = renderSectorLegend(r.counts)
        /\ lastCall' = [op |-> "geofencesSnapshot", snap |-> snap,
                        before |-> MapKeys(geofenceById)]
        /\ UNCHANGED officerVars
        /\ UNCHANGED alertVars

\* onSnapshot(collection(dbL, "geofences"), ...): both maps are cleared and
\* rebuilt from the snapshot, and the sector legend is rendered with zeros;
\* lastCall keeps the snapshot and the ids that were stored before it
GeofencesSnapshot(snap) ==
    \E drawn \in {DrawAll(ActiveDocs(snap), 1, <<>>, <<>>)} :
    \E base \in {baseSectorCountMap(drawn.byId)} :
        /\ geofenceById' = drawn.byId
        /\ geofenceLayers' = drawn.layers
        /\ lastCountMap' = base
        /\ chips' = renderSectorLegend(base)
        /\ lastCall' = [op |-> "geofencesSnapshot", snap |-> snap,
                        before |-> MapKeys(geofenceById)]
        /\ UNCHANGED officerVars
        /\ UNCHANGED alertVars

(* ------------------------------------------------------------------ *)
(* Inputs: geofence documents, query points, position maps              *)
(* ------------------------------------------------------------------ *)

\* a path point { lat, lng } with numeric coordinates (tenths of a degree)
Pt(lat, lng) == [lat |-> Num(lat), lng |-> Num(lng)]

NoGeoData ==
    [nombre |-> Undefined, name |-> Undefined, color |-> Undefined, colour |-> Undefined,
     activo |-> Undefined, gpath |-> Undefined, path |-> Undefined]

\* "Sector 12": overlaps Sector 4 for lng in 5..10, own colour, geometry.path
GeoSector12 ==
    [id |-> "g1",
     data |-> [NoGeoData EXCEPT
        !.nombre = Str(<<"S","e","c","t","o","r"," ","1","2">>),
        !.color = Str(<<"#111111">>),
        !.gpath = Arr(<<Pt(0, 5), Pt(0, 20), Pt(10, 20), Pt(10, 5)>>)]]

\* "Zona Sur": two usable points only
GeoZonaSur ==
    [id |-> "g2",
     data |-> [NoGeoData EXCEPT
        !.nombre = Str(<<"Z","o","n","a"," ","S","u","r">>),
        !.path = Arr(<<Pt(0, 30), Pt(10, 30)>>)]]

\* "Sector 4": the square of the specification's example, no colour
GeoSector4 ==
    [id |-> "g3",
     data |-> [NoGeoData EXCEPT
        !.nombre = Str(<<"S","e","c","t","o","r"," ","4">>),
        !.path = Arr(<<Pt(0, 0), Pt(0, 10), Pt(10, 10), Pt(10, 0)>>)]]

\* "Zona Norte": no number, given by name, a closed triangle touching Sector 4
\* along lat = 10; one coordinate is the string "2" and one pair is not numeric
GeoZonaNorte ==
    [id |-> "g4",
     data |-> [NoGeoData EXCEPT
        !.name = Str(<<"Z","o","n","a"," ","N","o","r","t","e">>),
        !.colour = Str(<<"#222222">>),
        !.path = Arr(<<Pt(10, 0),
                       [lat |-> Str(<<"2">>), lng |-> Num(0)],
                       [lat |-> Str(<<"x">>), lng |-> Num(5)],
                       Pt(20, 10), Pt(10, 0)>>)]]

\* "Sector 04": the same label S4 as Sector 4, an L-shaped polygon whose box
\* holds points outside it
GeoSector04 ==
    [id |-> "g5",
     data |-> [NoGeoData EXCEPT
        !.nombre = Str(<<"S","e","c","t","o","r"," ","0","4">>),
        !.path = Arr(<<Pt(30, 0), Pt(30, 20), Pt(40, 20), Pt(40, 10), Pt(50, 10), Pt(50, 0)>>)]]

\* "Sector 7": inactive, would cover everything
GeoSector7 ==
    [id |-> "g6",
     data |-> [NoGeoData EXCEPT
        !.nombre = Str(<<"S","e","c","t","o","r"," ","7">>),
        !.activo = Bool(FALSE),
        !.path = Arr(<<Pt(0, 0), Pt(0, 50), Pt(50, 50), Pt(50, 0)>>)]]

\* "Sector 9": active, no usable point
GeoSector9 ==
    [id |-> "g7",
     data |-> [NoGeoData EXCEPT
        !.nombre = Str(<<"S","e","c","t","o","r"," ","9">>),
        !.activo = Bool(TRUE),
        !.path = Arr(<<[lat |-> Undefined, lng |-> Num(5)]>>)]]

\* the geofence documents, in the order of their ids: the order in which a
\* snapshot of the collection delivers them
GeoDocs ==
    <<GeoSector12, GeoZonaSur, GeoSector4, GeoZonaNorte, GeoSector04, GeoSector7, GeoSector9>>

\* the elements of seq at the indices of idx, in the order of seq
RECURSIVE Pick(_, _, _)
Pick(seq, idx, i) ==
    IF i > Len(seq) THEN <<>>
    ELSE IF i \in idx THEN <<seq[i]>> \o Pick(seq, idx, i + 1)
    ELSE Pick(seq, idx, i + 1)

\* the subsequences of seq of at most n elements
SubSeqs(seq, n) ==
    {Pick(seq, idx, 1) : idx \in {x \in SUBSET (1..Len(seq)) : Cardinality(x) <= n}}

\* a snapshot holds some of the documents, each once
GeoSnapshots == SubSeqs(GeoDocs, MaxGeofences)

\* one geofence more than the palette has colours: "Sector 21" to "Sector 28",
\* none with a colour, each a triangle of its own
PaletteDocs ==
    SeqOf([i \in 1..(Len(defaultColors) + 1) |->
        [id |-> <<"p1", "p2", "p3", "p4", "p5", "p6", "p7", "p8">>[i],
         data |-> [NoGeoData EXCEPT
            !.nombre = Str(<<"S","e","c","t","o","r"," ">> \o IntToString(20 + i)),
            !.path = Arr(<<Pt(100 + 10 * i, 0), Pt(100 + 10 * i, 5),
                           Pt(105 + 10 * i, 0)>>)]]])

\* snapshots longer than the palette: the run of PaletteDocs, the same behind
\* the inactive Sector 7, and the same behind Sector 12, which has a colour
PaletteSnapshots ==
    {PaletteDocs, <<GeoSector7>> \o PaletteDocs,
     <<GeoSector12>> \o SubSeq(PaletteDocs, 1, Len(defaultColors))}

\* query points: inside one, in an overlap, on an edge of Sector 4 inside
\* Sector 12, on a vertex, on the extension of an edge, in the notch of the L,
\* inside the L, on an edge of Zona Norte, on the two-point path, nowhere
QueryPoints ==
    {<<5, 3>>, <<5, 7>>, <<5, 10>>, <<10, 10>>, <<15, 10>>, <<45, 15>>,
     <<35, 5>>, <<15, 5>>, <<5, 30>>, <<70, 70>>}

\* an entry of a positions map: { coords: [lat, lng] }, or without coords
Entity(key, coords) == [k |-> key, v |-> [coords |-> coords]]

\* entities: inside Sector 4, on its edge inside Sector 12, without coords, in
\* the notch of the L, inside the L, at a latitude out of range
Entities ==
    <<Entity("a", Arr(<<5, 3>>)), Entity("c", Arr(<<5, 10>>)), Entity("h", Undefined),
      Entity("d", Arr(<<45, 15>>)), Entity("e", Arr(<<35, 5>>)), Entity("g", Arr(<<910, 0>>))>>

PositionMaps == SubSeqs(Entities, MaxEntities)

(* ------------------------------------------------------------------ *)
(* Notification of subscribers (personal.js and alertas.js alike)       *)
(* ------------------------------------------------------------------ *)

\* a function value; a subscriber is a function that reads what its provider
\* exposes and returns, or throws
Fn(id) == [t |-> "function", id |-> id]

\* the faulty subscriber throws whenever it is called
Throws(cb) == cb.id = "faulty"

\* Set.prototype.add on a Set kept in insertion order
SetAdd(set, x) ==
    IF \E i \in 1..Len(set) : set[i] = x THEN set ELSE Append(set, x)

\* a registration on a list: a function is appended every time it is handed in
SubscribedAppends(listeners, cb) ==
    IF cb.t = "function" THEN Append(listeners, cb) ELSE listeners

\* a registration without the test typeof cb === "function"
SubscribedAnything(listeners, cb) == SetAdd(listeners, cb)

\* onSerenosUpdate / onAlertasUpdate: only a function is added
Subscribed(listeners, cb) ==
    IF cb.t = "function" THEN SetAdd(listeners, cb) ELSE listeners

\* an emit that lets the exception of a callback end the forEach
emitUncaught(listeners, view) ==
    LET stop == IF \E i \in 1..Len(listeners) : Throws(listeners[i])
                THEN CHOOSE i \in 1..Len(listeners) :
                         /\ Throws(listeners[i])
                         /\ \A j \in 1..(i - 1) : ~Throws(listeners[j])
                ELSE Len(listeners)
    IN  [threw |-> \E i \in 1..Len(listeners) : Throws(listeners[i]),
         calls |-> SeqOf([i \in 1..stop |->
                      [threw |-> Throws(listeners[i]), cb |-> listeners[i], view |-> view]])]

\* an emit that calls nobody
emitNobody(listeners, view) == [threw |-> FALSE, calls |-> <<>>]

\* emit: listeners.forEach(cb => { try { cb(); } catch {} }): the calls made,
\* in the order of the Set, each with what the callback could read and whether
\* it threw; the catch swallows every exception, so emit itself never throws
emit(listeners, view) ==
    [threw |-> FALSE,
     calls |-> SeqOf([i \in 1..Len(listeners) |->
                  [threw |-> Throws(listeners[i]), cb |-> listeners[i], view |-> view]])]

(* ------------------------------------------------------------------ *)
(* Officer provider (personal.js)                                       *)
(* ------------------------------------------------------------------ *)

SIN_ID == <<"s","i","n","-","i","d">>

\* a key function that takes dni and nombre as they are written
keyForUntrimmed(d) ==
    IF Truthy(d.dni) THEN JsString(d.dni)
    ELSE IF Truthy(d.nombre) THEN JsString(d.nombre)
    ELSE SIN_ID

\* keyFor: the trimmed dni, else the trimmed nombre, else "sin-id"
keyFor(d) ==
    IF Truthy(d.dni) /\ Trim(JsString(d.dni)) # <<>> THEN Trim(JsString(d.dni))
    ELSE IF Truthy(d.nombre) /\ Trim(JsString(d.nombre)) # <<>> THEN Trim(JsString(d.nombre))
    ELSE SIN_ID

\* the object rebuildSerenos hands to getCoords
CoordsArgS(data) ==
    [lat |-> data.lat, lng |-> data.lng, latitud |-> data.latitud,
     latitude |-> data.latitude, longitud |-> data.longitud,
     longitude |-> data.longitude, long |-> data.long, lon |-> Undefined]

\* when >= start && when < end, with the end taken as well
InShiftClosed(when, r) == GreaterEq(when, r.start) /\ ~Greater(when, r.end) /\ ~r.end.nan

\* when >= start && when < end
InShift(when, r) == GreaterEq(when, r.start) /\ Less(when, r.end)

\* okText: no text, or the text is in the name or in the dni
okText(data, texto) ==
    \/ texto = <<>>
    \/ Includes(norm(data.nombre), texto)
    \/ Includes(norm(Str(JsString(Or(data.dni, Str(<<>>))))), texto)

\* hasC: !!(data.comentario && String(data.comentario).trim())
hasComment(data) == Truthy(data.comentario) /\ Trim(JsString(data.comentario)) # <<>>

\* a latest entry is replaced by any later record of the loop
ReplacesAlways(latest, k, when) == TRUE

\* !prev || when > prev.when
Replaces(latest, k, when) == ~MapHas(latest, k) \/ Greater(when, MapGet(latest, k).when)

\* the first loop of rebuildSerenos from record i on: latest by key
RECURSIVE LatestLoop(_, _, _, _, _, _)
LatestLoop(docs, i, latest, r, texto, onlyC) ==
    IF i > Len(docs) THEN latest
    ELSE LET data   == docs[i].v.data
             when   == docs[i].v.when
             coords == getCoords(CoordsArgS(data))
             k      == keyFor(data)
         IN  IF /\ coords # Null
                /\ InShift(when, r)
                /\ okText(data, texto)
                /\ (onlyC => hasComment(data))
                /\ Replaces(latest, k, when)
             THEN LatestLoop(docs, i + 1,
                             MapSet(latest, k, [data |-> data, coords |-> coords,
                                                when |-> when, hasC |-> hasComment(data)]),
                             r, texto, onlyC)
             ELSE LatestLoop(docs, i + 1, latest, r, texto, onlyC)

\* the latest map of rebuildSerenos for the cache and the filters of the panel
LatestOf(docs, fecha, turno, search, onlyC) ==
    LatestLoop(docs, 1, <<>>, intervaloTurno(parseFecha(fecha), turno),
               norm(Or(Str(search), Str(<<>>))), onlyC)

\* the second loop of rebuildSerenos: a marker per key, created at or moved to
\* the coords of its entry
\* a placement that creates the missing markers and never moves an existing one
RECURSIVE PlaceMarkersNoMove(_, _, _)
PlaceMarkersNoMove(markers, latest, i) ==
    IF i > Len(latest) THEN markers
    ELSE PlaceMarkersNoMove(IF MapHas(markers, latest[i].k) THEN markers
                            ELSE MapSet(markers, latest[i].k, [latlng |-> latest[i].v.coords.a]),
                            latest, i + 1)

RECURSIVE PlaceMarkers(_, _, _)
PlaceMarkers(markers, latest, i) ==
    IF i > Len(latest) THEN markers
    ELSE PlaceMarkers(MapSet(markers, latest[i].k, [latlng |-> latest[i].v.coords.a]),
                      latest, i + 1)

\* what a subscriber of the officer provider can read while it runs: the map
\* of getLatestSerenosMap (a copy of latest), the markers on capaSerenos with
\* their positions, the text of #countSerenos and the chips
ViewS(latest, legend) ==
    [latestMap |-> latest,
     count     |-> IntToString(Cardinality(MapKeys(latest))),
     layer     |-> {<<latest[i].k, latest[i].v.coords.a>> : i \in 1..Len(latest)},
     legend    |-> legend]

\* a rebuild that keeps latest but leaves the sector legend as it was
rebuildSerenosNoRecount(docs, fecha, turno, search, onlyC) ==
    \E latest \in {LatestOf(docs, fecha, turno, search, onlyC)} :
        /\ markersS' = PlaceMarkers(markersS, latest, 1)
        /\ capaSerenos' = MapKeys(latest)
        /\ countSerenos' = IntToString(Cardinality(MapKeys(latest)))
        /\ lastLatestSerenos' = latest
        /\ lastCall' = [op    |-> "rebuildSerenos",
                        threw |-> FALSE,
                        calls |-> emit(listenersS, ViewS(latest, chips)).calls]
        /\ UNCHANGED <<geofenceById, geofenceLayers, chips, lastCountMap, listenersS>>

\* a rebuild that notifies the subscribers first, before anything is updated
rebuildSerenosEmitsFirst(docs, fecha, turno, search, onlyC) ==
    \E latest \in {LatestOf(docs, fecha, turno, search, onlyC)} :
    \E r \in {updateSectorCountsFrom(geofenceById, geofenceLayers, latest)} :
        /\ markersS' = PlaceMarkers(markersS, latest, 1)
        /\ capaSerenos' = MapKeys(latest)
        /\ countSerenos' = IntToString(Cardinality(MapKeys(latest)))
        /\ lastLatestSerenos' = latest
        /\ IF r.threw
           THEN UNCHANGED <<chips, lastCountMap>>
           ELSE /\ lastCountMap' = r.counts
                /\ chips' = renderSectorLegend(r.counts)
        /\ lastCall' = [op    |-> "rebuildSerenos",
                        threw |-> r.threw,
                        calls |-> emit(listenersS, ViewS(lastLatestSerenos, chips)).calls]
        /\ UNCHANGED <<geofenceById, geofenceLayers, listenersS>>

\* rebuildSerenos on the cache docs and the values of the filter controls: the
\* layer is cleared and holds the markers of latest, the counter shows their
\* number, latest is kept, the sector legend is recounted from it, and then
\* the subscribers are notified (not reached when the recount threw)
rebuildSerenos(docs, fecha, turno, search, onlyC) ==
    \E latest \in {LatestOf(docs, fecha, turno, search, onlyC)} :
    \E r \in {updateSectorCountsFrom(geofenceById, geofenceLayers, latest)} :
    \E e \in {IF r.threw THEN [threw |-> TRUE, calls |-> <<>>]
               ELSE emit(listenersS, ViewS(latest, renderSectorLegend(r.counts)))} :
        /\ markersS' = PlaceMarkers(markersS, latest, 1)
        /\ capaSerenos' = MapKeys(latest)
        /\ countSerenos' = IntToString(Cardinality(MapKeys(latest)))
        /\ lastLatestSerenos' = latest
        /\ IF r.threw
           THEN UNCHANGED <<chips, lastCountMap>>
           ELSE /\ lastCountMap' = r.counts
                /\ chips' = renderSectorLegend(r.counts)
        /\ lastCall' = [op |-> "rebuildSerenos", threw |-> e.threw, calls |-> e.calls]
        /\ UNCHANGED <<geofenceById, geofenceLayers, listenersS>>

\* the cache built from a snapshot of asistencias: cleared, then one entry per
\* document in the order of the snapshot
CacheOf(snap) ==
    SeqOf([i \in 1..Len(snap) |->
              [k |-> snap[i].id,
               v |-> [data |-> snap[i].data, when |-> getWhenS(snap[i].data)]]])

\* onSnapshot(query(collection(dbS, "asistencias"), orderBy("timestamp", "desc")))
AsistenciasSnapshot(snap) ==
    \E cache \in {CacheOf(snap)} :
        /\ upstreamS' = snap
        /\ docsS' = cache
        /\ rebuildSerenos(cache, fechaSerenos, turnoSerenos, buscador, soloComentario)
        /\ UNCHANGED <<fechaSerenos, turnoSerenos, buscador, soloComentario, debounceTimer, timerDue>>
        /\ UNCHANGED alertVars

\* change of #fechaSerenos
ChangeFechaSerenos(v) ==
    /\ v # fechaSerenos
    /\ fechaSerenos' = v
    /\ rebuildSerenos(docsS, v, turnoSerenos, buscador, soloComentario)
    /\ UNCHANGED <<docsS, upstreamS, turnoSerenos, buscador, soloComentario, debounceTimer, timerDue>>
    /\ UNCHANGED alertVars

\* change of a radio of turnoSerenos: the radio of value turno is checked
ChangeTurnoSerenos(turno) ==
    /\ turno # turnoSerenos
    /\ turnoSerenos' = turno
    /\ rebuildSerenos(docsS, fechaSerenos, turno, buscador, soloComentario)
    /\ UNCHANGED <<docsS, upstreamS, fechaSerenos, buscador, soloComentario, debounceTimer, timerDue>>
    /\ UNCHANGED alertVars

\* the delay of debounce(rebuildSerenos, 140)
DEBOUNCE_MS == 140

\* a handler that starts the timer on the first input and lets it run on
\* the later ones
InputBuscadorKeepsTimer(text) ==
    /\ text # buscador
    /\ buscador' = text
    /\ debounceTimer' = TRUE
    /\ timerDue' = (IF debounceTimer THEN timerDue ELSE now + DEBOUNCE_MS)
    /\ lastCall' = [op |-> "inputBuscador"]
    /\ UNCHANGED <<docsS, upstreamS, markersS, capaSerenos, countSerenos, lastLatestSerenos,
                   fechaSerenos, turnoSerenos, soloComentario, listenersS>>
    /\ UNCHANGED sectorVars
    /\ UNCHANGED alertVars

\* input on #buscador: the debounced handler clears its timer and sets it
\* again, due 140 ms from now; nothing is rebuilt yet
InputBuscador(text) ==
    /\ text # buscador
    /\ buscador' = text
    /\ debounceTimer' = TRUE
    /\ timerDue' = now + DEBOUNCE_MS
    /\ lastCall' = [op |-> "inputBuscador"]
    /\ UNCHANGED <<docsS, upstreamS, markersS, capaSerenos, countSerenos, lastLatestSerenos,
                   fechaSerenos, turnoSerenos, soloComentario, listenersS>>
    /\ UNCHANGED sectorVars
    /\ UNCHANGED alertVars

\* the callback of the timer of debounce(rebuildSerenos, 140) runs
DebounceFires ==
    /\ debounceTimer
    /\ debounceTimer' = FALSE
    /\ timerDue' = 0
    /\ rebuildSerenos(docsS, fechaSerenos, turnoSerenos, buscador, soloComentario)
    /\ UNCHANGED <<docsS, upstreamS, fechaSerenos, turnoSerenos, buscador, soloComentario>>
    /\ UNCHANGED alertVars

\* change of #soloComentario
ChangeSoloComentario ==
    /\ soloComentario' = ~soloComentario
    /\ rebuildSerenos(docsS, fechaSerenos, turnoSerenos, buscador, ~soloComentario)
    /\ UNCHANGED <<docsS, upstreamS, fechaSerenos, turnoSerenos, buscador, debounceTimer, timerDue>>
    /\ UNCHANGED alertVars

\* click on #btnHoyS: the defaults of today, then a rebuild
ClickHoyS ==
    \E def \in {todayTurnDefaults(now)} :
        /\ fechaSerenos' = def.fecha
        /\ turnoSerenos' = def.turno
        /\ rebuildSerenos(docsS, def.fecha, def.turno, buscador, soloComentario)
        /\ UNCHANGED <<docsS, upstreamS, buscador, soloComentario, debounceTimer, timerDue>>
        /\ UNCHANGED alertVars

\* a module calls the exported onSerenosUpdate(cb)
SubscribeSerenos(cb) ==
    /\ listenersS' = Subscribed(listenersS, cb)
    /\ lastCall' = [op |-> "onSerenosUpdate", cb |-> cb]
    /\ UNCHANGED <<docsS, upstreamS, markersS, capaSerenos, countSerenos, lastLatestSerenos,
                   fechaSerenos, turnoSerenos, buscador, soloComentario, debounceTimer, timerDue>>
    /\ UNCHANGED sectorVars
    /\ UNCHANGED alertVars

(* ------------------------------------------------------------------ *)
(* Alert provider (alertas.js)                                          *)
(* ------------------------------------------------------------------ *)

THIRTY_MIN == 30 * 60 * 1000

\* Map.prototype.delete
MapDelete(m, key) == Pick(m, {i \in 1..Len(m) : m[i].k # key}, 1)

\* the object rebuildAlertas hands to getCoords: no long and no lon
CoordsArgA(data) ==
    [lat |-> data.lat, lng |-> data.lng, latitud |-> data.latitud,
     latitude |-> data.latitude, longitud |-> data.longitud,
     longitude |-> data.longitude, long |-> Undefined, lon |-> Undefined]

\* include: in active mode the alert is at most 30 minutes old at the instant
\* clock, in range mode its date is in the window of the date and the shift
IncludeAlert(when, mode, clock, r) ==
    IF mode = "active"
    THEN ~when.nan /\ clock - when.v <= THIRTY_MIN
    ELSE InShift(when, r)

\* the records of the cache that rebuildAlertas shows, in the order of the cache
VisibleAlerts(docs, mode, clock, fecha, turno) ==
    LET r == IF mode = "range" THEN intervaloTurno(parseFecha(fecha), turno)
             ELSE [start |-> Null, end |-> Null]
    IN  Pick(docs, {i \in 1..Len(docs) :
                       /\ getCoords(CoordsArgA(docs[i].v.data)) # Null
                       /\ IncludeAlert(docs[i].v.when, mode, clock, r)}, 1)

\* the loop of rebuildAlertas over the visible records: a marker per document
\* id, created at or moved to its coords
RECURSIVE PlaceAlertMarkers(_, _, _)
PlaceAlertMarkers(markers, visible, i) ==
    IF i > Len(visible) THEN markers
    ELSE PlaceAlertMarkers(
             MapSet(markers, visible[i].v.id,
                    [latlng |-> getCoords(CoordsArgA(visible[i].v.data)).a]),
             visible, i + 1)

\* what a subscriber of the alert provider can read while it runs: the
\* markers on capaAlertas with their positions and the text of #countAlertas
ViewA(visible) ==
    [count |-> IntToString(Len(visible)),
     layer |-> {<<visible[i].v.id, getCoords(CoordsArgA(visible[i].v.data)).a>> :
                   i \in 1..Len(visible)}]

\* rebuildAlertas on the cache docs, the markers kept so far and the values of
\* the controls: the layer is cleared and holds the markers of the visible
\* records, and the counter shows their number; by records the handler that
\* made the call
rebuildAlertas(docs, markers, mode, clock, fecha, turno, by) ==
    \E visible \in {VisibleAlerts(docs, mode, clock, fecha, turno)} :
    \E e \in {emit(listenersA, ViewA(visible))} :
        /\ markersA' = PlaceAlertMarkers(markers, visible, 1)
        /\ capaAlertas' = MapKeys(visible)
        /\ countAlertas' = IntToString(Len(visible))
        /\ lastCall' = [op |-> "rebuildAlertas", threw |-> e.threw, calls |-> e.calls,
                        by |-> by]
        /\ UNCHANGED listenersA

\* the collection alertas after the changes of a batch, which Firestore
\* reports in the order they bring the previous result to the new one: a
\* removed document is gone, an added or modified one is there with its data
RECURSIVE UpstreamAfter(_, _, _)
UpstreamAfter(collection, changes, i) ==
    IF i > Len(changes) THEN collection
    ELSE UpstreamAfter(
             {d \in collection : d.id # changes[i].id}
                 \cup (IF changes[i].type = "removed" THEN {}
                       ELSE {[id |-> changes[i].id, data |-> changes[i].data]}),
             changes, i + 1)

\* a forEach that caches the added and modified documents and lets the
\* removed ones be
RECURSIVE ApplyChangesKeepsRemoved(_, _, _, _)
ApplyChangesKeepsRemoved(changes, i, docs, markers) ==
    IF i > Len(changes) THEN [docs |-> docs, markers |-> markers]
    ELSE IF changes[i].type = "removed"
         THEN ApplyChangesKeepsRemoved(changes, i + 1, docs, markers)
         ELSE ApplyChangesKeepsRemoved(changes, i + 1,
                  MapSet(docs, changes[i].id, [id   |-> changes[i].id,
                                               data |-> changes[i].data,
                                               when |-> getWhenA(changes[i].data)]),
                  markers)

\* a forEach that takes a removed document out of the cache and keeps its marker
RECURSIVE ApplyChangesKeepsMarker(_, _, _, _)
ApplyChangesKeepsMarker(changes, i, docs, markers) ==
    IF i > Len(changes) THEN [docs |-> docs, markers |-> markers]
    ELSE IF changes[i].type = "removed"
         THEN ApplyChangesKeepsMarker(changes, i + 1, MapDelete(docs, changes[i].id), markers)
         ELSE ApplyChangesKeepsMarker(changes, i + 1,
                  MapSet(docs, changes[i].id, [id   |-> changes[i].id,
                                               data |-> changes[i].data,
                                               when |-> getWhenA(changes[i].data)]),
                  markers)

\* the forEach of the listener over docChanges(): a removed document leaves the
\* cache and loses its marker, an added or modified one is cached with its date
RECURSIVE ApplyChanges(_, _, _, _)
ApplyChanges(changes, i, docs, markers) ==
    IF i > Len(changes) THEN [docs |-> docs, markers |-> markers]
    ELSE LET ch == changes[i]
         IN  IF ch.type = "removed"
             THEN ApplyChanges(changes, i + 1, MapDelete(docs, ch.id), MapDelete(markers, ch.id))
             ELSE ApplyChanges(changes, i + 1,
                               MapSet(docs, ch.id, [id   |-> ch.id,
                                                    data |-> ch.data,
                                                    when |-> getWhenA(ch.data)]),
                               markers)

\* newIds after the forEach of the listener: the ids of the changes of type
\* added, in the order of the batch, once the first snapshot has been seen
newIds(changes, init) ==
    IF init
    THEN Pick([i \in 1..Len(changes) |-> changes[i].id],
              {i \in 1..Len(changes) : changes[i].type = "added"}, 1)
    ELSE <<>>

\* the loop over newIds that flies to every visible new alert
RECURSIVE FlyLoopNoBreak(_, _, _, _, _, _, _, _)
FlyLoopNoBreak(ids, i, docs, markers, mode, clock, fecha, turno) ==
    IF i > Len(ids) THEN <<>>
    ELSE LET rest == FlyLoopNoBreak(ids, i + 1, docs, markers, mode, clock, fecha, turno)
             r == IF mode = "range" THEN intervaloTurno(parseFecha(fecha), turno)
                  ELSE [start |-> Null, end |-> Null]
         IN  IF ~MapHas(docs, ids[i]) THEN rest
             ELSE IF getCoords(CoordsArgA(MapGet(docs, ids[i]).data)) = Null THEN rest
             ELSE IF ~IncludeAlert(MapGet(docs, ids[i]).when, mode, clock, r) THEN rest
             ELSE <<[id     |-> ids[i],
                     coords |-> getCoords(CoordsArgA(MapGet(docs, ids[i]).data)).a,
                     zoom   |-> 17,
                     popup  |-> MapHas(markers, ids[i]),
                     now    |-> clock]>> \o rest

\* the loop of the listener over newIds, run at the instant clock: the ids
\* that are no longer cached, have no coords or are not visible under the mode
\* are passed over; the first other one gets map.flyTo(coords, 17), and
\* openPopup on a timer if it has a marker, and ends the loop (break). The
\* result is the calls of map.flyTo made
RECURSIVE FlyLoop(_, _, _, _, _, _, _, _)
FlyLoop(ids, i, docs, markers, mode, clock, fecha, turno) ==
    IF i > Len(ids) THEN <<>>
    ELSE LET rest == FlyLoop(ids, i + 1, docs, markers, mode, clock, fecha, turno)
             r == IF mode = "range" THEN intervaloTurno(parseFecha(fecha), turno)
                  ELSE [start |-> Null, end |-> Null]
         IN  IF ~MapHas(docs, ids[i]) THEN rest
             ELSE IF getCoords(CoordsArgA(MapGet(docs, ids[i]).data)) = Null THEN rest
             ELSE IF ~IncludeAlert(MapGet(docs, ids[i]).when, mode, clock, r) THEN rest
             ELSE <<[id     |-> ids[i],
                     coords |-> getCoords(CoordsArgA(MapGet(docs, ids[i]).data)).a,
                     zoom   |-> 17,
                     popup  |-> MapHas(markers, ids[i]),
                     now    |-> clock]>>

\* the values Date.now() can return to the second reading of one run of the
\* listener, after rebuildAlertas read clock: the same millisecond or the next
ClockReads(clock) == {clock, clock + 1}

\* onSnapshot(collection(dbA, "alertas")): the changes are applied, the view is
\* rebuilt, the map flies to the first new visible alert (the clock is read
\* again, as later), and the first snapshot is marked as seen (the last
\* statement of the handler, not reached if rebuildAlertas threw)
AlertasSnapshot(changes, later) ==
    \E applied \in {ApplyChanges(changes, 1, docsA, markersA)} :
        /\ upstreamA' = UpstreamAfter(upstreamA, changes, 1)
        /\ docsA' = applied.docs
        /\ rebuildAlertas(applied.docs, applied.markers, alertMode, now, fechaAlertas, turnoAlertas,
                          [op |-> "onSnapshot", snap |-> changes])
        /\ flights' = (IF lastCall'.threw THEN <<>>
                       ELSE FlyLoop(newIds(changes, initialized), 1, applied.docs, markersA',
                                    alertMode, later, fechaAlertas, turnoAlertas))
        /\ initialized' = (IF lastCall'.threw THEN initialized ELSE TRUE)
        /\ UNCHANGED <<alertMode, fechaAlertas, turnoAlertas, now>>
        /\ UNCHANGED sectorVars
        /\ UNCHANGED officerVars

\* change of #am-active or #am-range: the other mode is checked
ChangeAlertMode(mode) ==
    /\ mode # alertMode
    /\ alertMode' = mode
    /\ rebuildAlertas(docsA, markersA, mode, now, fechaAlertas, turnoAlertas,
                      [op |-> "alertMode"])
    /\ UNCHANGED <<docsA, upstreamA, initialized, fechaAlertas, turnoAlertas, now, flights>>
    /\ UNCHANGED sectorVars
    /\ UNCHANGED officerVars

\* change of #fechaAlertas
ChangeFechaAlertas(v) ==
    /\ v # fechaAlertas
    /\ fechaAlertas' = v
    /\ rebuildAlertas(docsA, markersA, alertMode, now, v, turnoAlertas,
                      [op |-> "fechaAlertas"])
    /\ UNCHANGED <<docsA, upstreamA, initialized, alertMode, turnoAlertas, now, flights>>
    /\ UNCHANGED sectorVars
    /\ UNCHANGED officerVars

\* change of a radio of turnoAlertas
ChangeTurnoAlertas(turno) ==
    /\ turno # turnoAlertas
    /\ turnoAlertas' = turno
    /\ rebuildAlertas(docsA, markersA, alertMode, now, fechaAlertas, turno,
                      [op |-> "turnoAlertas"])
    /\ UNCHANGED <<docsA, upstreamA, initialized, alertMode, fechaAlertas, now, flights>>
    /\ UNCHANGED sectorVars
    /\ UNCHANGED officerVars

\* click on #btnHoyA: the date of today and the shift "todos", then a rebuild
ClickHoyA ==
    \E def \in {todayTurnDefaults(now)} :
        /\ fechaAlertas' = def.fecha
        /\ turnoAlertas' = "todos"
        /\ rebuildAlertas(docsA, markersA, alertMode, now, def.fecha, "todos",
                          [op |-> "btnHoyA"])
        /\ UNCHANGED <<docsA, upstreamA, initialized, alertMode, now, flights>>
        /\ UNCHANGED sectorVars
        /\ UNCHANGED officerVars

\* a tick that rebuilds the view and renders the sector legend anew
TimerTickRendersLegend(clock) ==
    /\ clock > now
    /\ now' = clock
    /\ rebuildAlertas(docsA, markersA, alertMode, clock, fechaAlertas, turnoAlertas,
                      [op |-> "setInterval"])
    /\ lastCountMap' = baseSectorCountMap(geofenceById)
    /\ chips' = renderSectorLegend(baseSectorCountMap(geofenceById))
    /\ UNCHANGED <<docsA, upstreamA, initialized, alertMode, fechaAlertas, turnoAlertas, flights>>
    /\ UNCHANGED <<geofenceById, geofenceLayers>>
    /\ UNCHANGED officerVars

\* a tick that rebuilds the view whatever the mode
TimerTickAnyMode(clock) ==
    /\ clock > now
    /\ now' = clock
    /\ rebuildAlertas(docsA, markersA, alertMode, clock, fechaAlertas, turnoAlertas,
                      [op |-> "setInterval"])
    /\ UNCHANGED <<docsA, upstreamA, initialized, alertMode, fechaAlertas, turnoAlertas, flights>>
    /\ UNCHANGED sectorVars
    /\ UNCHANGED officerVars

\* a tick of setInterval(..., 15000) at the instant clock: the view is rebuilt
\* in active mode only. The clock of the model advances with the ticks; the
\* ticks between two modelled ones change nothing that the later one does not
TimerTick(clock) ==
    /\ clock > now
    /\ now' = clock
    /\ IF alertMode = "active"
       THEN rebuildAlertas(docsA, markersA, alertMode, clock, fechaAlertas, turnoAlertas,
                           [op |-> "setInterval"])
       ELSE /\ lastCall' = [op |-> "timerTick"]
            /\ UNCHANGED <<markersA, capaAlertas, countAlertas, listenersA>>
    /\ UNCHANGED <<docsA, upstreamA, initialized, alertMode, fechaAlertas, turnoAlertas, flights>>
    /\ UNCHANGED sectorVars
    /\ UNCHANGED officerVars

\* a module calls the exported onAlertasUpdate(cb)
SubscribeAlertas(cb) ==
    /\ listenersA' = Subscribed(listenersA, cb)
    /\ lastCall' = [op |-> "onAlertasUpdate", cb |-> cb]
    /\ UNCHANGED <<docsA, upstreamA, markersA, capaAlertas, countAlertas, initialized,
                   alertMode, fechaAlertas, turnoAlertas, now, flights>>
    /\ UNCHANGED sectorVars
    /\ UNCHANGED officerVars

(* ------------------------------------------------------------------ *)
(* Inputs: attendance records, alerts, filter values, instants          *)
(* ------------------------------------------------------------------ *)

\* the instant of day d of January 1970 at h:m, local time
At(d, h, m) == (d - 1) * DAY + h * HOUR + m * MINUTE

NoAsistData ==
    [nombre |-> Undefined, lat |-> Undefined, lng |-> Undefined, latitud |-> Undefined,
     latitude |-> Undefined, longitud |-> Undefined, longitude |-> Undefined,
     long |-> Undefined, timestamp |-> Undefined, fecha |-> Undefined,
     dni |-> Undefined, comentario |-> Undefined]

\* dni " 7 ", an unparseable timestamp string and the fecha 02/01/70: 2 January
\* at 00:00; coordinates "0,5" and "0.3abc": inside Sector 4
AsistFecha ==
    [id |-> "a6",
     data |-> [NoAsistData EXCEPT
        !.nombre = Str(<<"A","n","a">>),
        !.latitud = Str(<<"0",",","5">>),
        !.longitud = Str(<<"0",".","3","a","b","c">>),
        !.timestamp = Str(<<"x">>),
        !.fecha = Str(<<"0","2","/","0","1","/","7","0">>),
        !.dni = Str(<<" ","7"," ">>)]]

\* dni 7 on 3 January at 07:00, the end of shift t3 of 2 January
AsistNextDay ==
    [id |-> "a5",
     data |-> [NoAsistData EXCEPT
        !.lat = Num(5), !.lng = Num(10),
        !.timestamp = Timestamp(At(3, 7, 0)),
        !.dni = Str(<<"7">>),
        !.comentario = Str(<<"o","k">>)]]

\* "Ána" without dni at 15:00, the end of t1 and the start of t2, a blank
\* comment, in the notch of the L
AsistAna ==
    [id |-> "a4",
     data |-> [NoAsistData EXCEPT
        !.nombre = Str(<<"Á","n","a">>),
        !.lat = Num(45), !.lng = Num(15),
        !.timestamp = Timestamp(At(2, 15, 0)),
        !.comentario = Str(<<" ">>)]]

\* dni 7 at 08:00 with a comment, on the edge of Sector 4 inside Sector 12
AsistMorning ==
    [id |-> "a3",
     data |-> [NoAsistData EXCEPT
        !.nombre = Str(<<"A","n","a">>),
        !.lat = Num(5), !.lng = Num(10),
        !.timestamp = Timestamp(At(2, 8, 0)),
        !.dni = Str(<<"7">>),
        !.comentario = Str(<<"o","k">>)]]

\* "José" with the numeric dni 8 at 08:00, latitude 91
AsistOutOfRange ==
    [id |-> "a2",
     data |-> [NoAsistData EXCEPT
        !.nombre = Str(<<"J","o","s","é">>),
        !.lat = Num(910), !.lng = Num(3),
        !.timestamp = Timestamp(At(2, 8, 0)),
        !.dni = Num(8),
        !.comentario = Str(<<"o","k">>)]]

\* dni 7 at 07:00, the start of t1, the longitude in the field long, inside
\* Sector 4
AsistEarly ==
    [id |-> "a1",
     data |-> [NoAsistData EXCEPT
        !.latitude = Num(5), !.long = Num(3),
        !.timestamp = Timestamp(At(2, 7, 0)),
        !.dni = Str(<<"7">>)]]

\* the attendance documents in the order of the query, timestamp descending:
\* string timestamps first, then the later Timestamp first, equal ones by
\* descending id
AsistDocs ==
    <<AsistFecha, AsistNextDay, AsistAna, AsistMorning, AsistOutOfRange, AsistEarly>>

AsistSnapshots == SubSeqs(AsistDocs, MaxRecords)

\* values of #fechaSerenos and #fechaAlertas: a day and the cleared input
Fechas == {<<"1","9","7","0","-","0","1","-","0","2">>, <<>>}

Turnos == {"t1", "t2", "t3", "todos"}

\* values typed in #buscador
SearchTexts == {<<>>, <<" ","Á","N","A">>}

\* geofence snapshots delivered while the officer panel is exercised
PersonalGeoSnapshots == {<<GeoSector12, GeoSector4>>}

NoAlertData ==
    [lat |-> Undefined, lng |-> Undefined, latitud |-> Undefined, latitude |-> Undefined,
     longitud |-> Undefined, longitude |-> Undefined, createdAt |-> Undefined,
     usuarioCodigo |-> Undefined]

\* the versions of alert x1: created at 08:10 with valid coordinates, and the
\* same with a latitude that is no number
AlertX1 ==
    [NoAlertData EXCEPT
        !.latitud = Str(<<"0",",","5">>), !.longitud = Num(3),
        !.createdAt = Timestamp(At(2, 8, 10))]

AlertX1NotNumeric == [AlertX1 EXCEPT !.lat = Str(<<"a","b","c">>)]

\* the versions of alert x2: created at 08:25 (a number of milliseconds) with
\* valid coordinates, and the same with longitude 181
AlertX2 ==
    [NoAlertData EXCEPT
        !.lat = Num(5), !.lng = Num(10),
        !.createdAt = Num(At(2, 8, 25))]

AlertX2OutOfRange == [AlertX2 EXCEPT !.lng = Num(1810)]

AlertVersions ==
    [id \in {"x1", "x2"} |->
        IF id = "x1" THEN {AlertX1, AlertX1NotNumeric} ELSE {AlertX2, AlertX2OutOfRange}]

\* the changes a batch can hold for document id when the cache is docs: added
\* when upstream did not have it, else modified to another version or removed
ChangesFor(docs, id) ==
    IF MapHas(docs, id)
    THEN {[id |-> id, data |-> NoAlertData, type |-> "removed"]}
         \cup {[id |-> id, data |-> d, type |-> "modified"] :
                  d \in AlertVersions[id] \ {MapGet(docs, id).data}}
    ELSE {[id |-> id, data |-> d, type |-> "added"] : d \in AlertVersions[id]}

\* the batches of docChanges() that can follow the cache docs: at most one
\* change per document, at least one change
AlertBatches(docs) ==
    {<<c>> : c \in ChangesFor(docs, "x1") \cup ChangesFor(docs, "x2")}
    \cup (IF MaxChanges >= 2
          THEN {<<c1, c2>> : c1 \in ChangesFor(docs, "x1"), c2 \in ChangesFor(docs, "x2")}
          ELSE {})

\* the alerts of the alert panel on its own, loaded at 08:30 of 2 January:
\* y1 is 30 minutes old to the millisecond, y2 is 31 minutes old and of the
\* same user, y3 is stamped 15:00 of that day (later than the clock of the
\* dashboard, and the instant where shift t1 ends and t2 starts), y4 is recent
\* and has no usable latitude
AlertCatalogue ==
    <<[id |-> "y1",
       data |-> [NoAlertData EXCEPT
          !.lat = Num(5), !.lng = Num(3),
          !.createdAt = Timestamp(At(2, 8, 0)),
          !.usuarioCodigo = Str(<<"u","1">>)]],
      [id |-> "y2",
       data |-> [NoAlertData EXCEPT
          !.latitud = Str(<<"0",",","5">>), !.longitud = Num(10),
          !.createdAt = Timestamp(At(2, 7, 59)),
          !.usuarioCodigo = Str(<<"u","1">>)]],
      [id |-> "y3",
       data |-> [NoAlertData EXCEPT
          !.lat = Num(5), !.lng = Num(3),
          !.createdAt = Num(At(2, 15, 0)),
          !.usuarioCodigo = Str(<<"u","2">>)]],
      [id |-> "y4",
       data |-> [NoAlertData EXCEPT
          !.lat = Str(<<"a","b","c">>), !.lng = Num(3),
          !.createdAt = Timestamp(At(2, 8, 20)),
          !.usuarioCodigo = Str(<<"u","2">>)]]>>

\* the batches of docChanges() of the alert panel: a document of the catalogue
\* is added while the cache holds fewer than MaxRecords, or a cached one is
\* removed
CatalogueBatches(docs) ==
    {<<[id |-> AlertCatalogue[i].id, data |-> AlertCatalogue[i].data, type |-> "added"]>> :
        i \in {j \in 1..Len(AlertCatalogue) :
                  ~MapHas(docs, AlertCatalogue[j].id) /\ Len(docs) < MaxRecords}}
    \cup {<<[id |-> docs[i].k, data |-> NoAlertData, type |-> "removed"]>> :
              i \in 1..Len(docs)}

\* the changes a batch can hold for the catalogue document at position i when
\* the cache is docs: added when upstream did not have it, else removed, or
\* modified to a version with latitude 0.6
CatalogueChanges(docs, i) ==
    IF MapHas(docs, AlertCatalogue[i].id)
    THEN {[id |-> AlertCatalogue[i].id, data |-> NoAlertData, type |-> "removed"],
          [id |-> AlertCatalogue[i].id,
           data |-> [AlertCatalogue[i].data EXCEPT !.lat = Num(6)],
           type |-> "modified"]}
    ELSE {[id |-> AlertCatalogue[i].id, data |-> AlertCatalogue[i].data, type |-> "added"]}

\* the number of changes of the type in the batch
ChangesOfType(batch, type) == Cardinality({i \in 1..Len(batch) : batch[i].type = type})

\* the batches of docChanges() of one or two changes, each about another
\* document of the catalogue, that leave at most MaxRecords documents upstream
CatalogueBatchPairs(docs) ==
    LET idx == 1..Len(AlertCatalogue)
        singles == {<<c>> : c \in UNION {CatalogueChanges(docs, i) : i \in idx}}
        pairs == IF MaxChanges >= 2
                 THEN UNION {{<<c, d>> : c \in CatalogueChanges(docs, i),
                                         d \in CatalogueChanges(docs, j)} :
                                <<i, j>> \in {q \in idx \X idx : q[1] # q[2]}}
                 ELSE {}
    IN  {b \in singles \cup pairs :
            Len(docs) + ChangesOfType(b, "added") - ChangesOfType(b, "removed") <= MaxRecords}

\* attendance documents of 2 January that differ in dni and nombre, each at
\* another place: k1 has neither, k2 a blank dni and an empty nombre, k3 the
\* number 0 as dni and the nombre " Ana ", k4 the dni " 7 " and the nombre
\* Ana, k5 a null dni and the nombre Ana
KeyDocs ==
    LET doc(id, dni, nombre, lat, minute) ==
            [id |-> id,
             data |-> [NoAsistData EXCEPT
                !.lat = Num(lat), !.lng = Num(10),
                !.timestamp = Timestamp(At(2, 8, minute)),
                !.dni = dni, !.nombre = nombre]]
    IN  <<doc("k1", Undefined, Undefined, 1, 0),
          doc("k2", Str(<<" ">>), Str(<<>>), 2, 10),
          doc("k3", Num(0), Str(<<" ","A","n","a"," ">>), 3, 20),
          doc("k4", Str(<<" ","7"," ">>), Str(<<"A","n","a">>), 4, 5),
          doc("k5", Null, Str(<<"A","n","a">>), 5, 15)>>

\* attendance documents that differ in how their date is written, all at
\* (0.5, 1.0) and each of another dni: w1 a Timestamp of 2 January 08:00, w2
\* an unparseable string and no fecha, w3 no timestamp and the fecha 02/01/70,
\* w4 an unparseable string and a fecha that is no date, w5 an object whose
\* seconds is NaN, w6 null and an empty fecha
WhenDocsS ==
    LET doc(id, timestamp, fecha) ==
            [id |-> id,
             data |-> [NoAsistData EXCEPT
                !.lat = Num(5), !.lng = Num(10),
                !.timestamp = timestamp, !.fecha = fecha, !.dni = Str(<<id>>)]]
    IN  <<doc("1", Timestamp(At(2, 8, 0)), Undefined),
          doc("2", Str(<<"x">>), Undefined),
          doc("3", Undefined, Str(<<"0","2","/","0","1","/","7","0">>)),
          doc("4", Str(<<"x">>), Str(<<"a","b","c">>)),
          doc("5", [t |-> "object", seconds |-> NaN], Undefined),
          doc("6", Null, Str(<<>>))>>

\* the snapshots of these documents: the pairs of neighbours
WhenSnapshots == {SubSeq(WhenDocsS, i, i + 1) : i \in {1, 3, 5}}

\* alert data that differ in createdAt: a Timestamp, a number of milliseconds,
\* the number NaN, a string Date reads, a string it does not read, an object
\* whose seconds is NaN, a boolean, nothing
WhenDataA ==
    {[NoAlertData EXCEPT !.createdAt = ct] :
        ct \in {Timestamp(At(2, 8, 0)), Num(At(2, 8, 25)), NaN,
                Str(<<"1","9","7","0","-","0","1","-","0","2","T","0","8",":","0","0">>),
                Str(<<"x">>), [t |-> "object", seconds |-> NaN], Bool(TRUE), Undefined}}

\* snapshots delivered to the dashboard
DashboardGeoSnapshots == {<<GeoSector4>>}

DashboardAsistSnapshots == SubSeqs(<<AsistMorning, AsistOutOfRange>>, MaxRecords)

\* what modules hand to onSerenosUpdate and onAlertasUpdate: a function that
\* returns, a function that throws, and a value that is no function
CallbackArgs == {Fn("refresh"), Fn("faulty"), Null}

\* batches of docChanges() about the alert x1 alone: added when the cache
\* does not hold it, removed when it does
SingleAlertBatches(docs) ==
    IF MapHas(docs, "x1")
    THEN {<<[id |-> "x1", data |-> NoAlertData, type |-> "removed"]>>}
    ELSE {<<[id |-> "x1", data |-> AlertX1, type |-> "added"]>>}

\* the instant the page is loaded
LoadInstants == {At(2, 8, 30)}

\* the instant of a later timer tick: alert x1 is then older than 30 minutes
TickInstants == {At(2, 8, 45)}

\* the timer of debounce(rebuildSerenos, 140) fires when it is due
TimerFires ==
    /\ now = timerDue
    /\ DebounceFires

\* the clock moves on by ms, whether or not a timer becomes due meanwhile
TimePassesFreely(ms) ==
    /\ \A t \in LoadInstants : now + ms <= t + MaxElapsed
    /\ now' = now + ms
    /\ UNCHANGED <<docsA, upstreamA, markersA, capaAlertas, countAlertas, initialized,
                   alertMode, fechaAlertas, turnoAlertas, listenersA, flights>>
    /\ UNCHANGED lastCall
    /\ UNCHANGED sectorVars
    /\ UNCHANGED officerVars

\* ms milliseconds pass without any event: the clock moves on, never beyond
\* the instant a pending timer is due at (the timer fires then)
TimePasses(ms) ==
    /\ debounceTimer => now + ms <= timerDue
    /\ TimePassesFreely(ms)

\* an input on #buscador early enough for its timer to fire within the
\* time observed
InputInTime(text) ==
    /\ \A t \in LoadInstants : now + DEBOUNCE_MS <= t + MaxElapsed
    /\ InputBuscador(text)

\* the texts typed in #buscador, one after the other
TypedTexts == {<<>>, <<"7">>, <<"7","z">>}

\* the pauses between two events
Pauses == {70, 140}

(* ------------------------------------------------------------------ *)
(* The locator and the aggregator called directly                       *)
(* ------------------------------------------------------------------ *)

\* a caller of the exported sectorOfPoint
LocatePoint(lat, lng) ==
    /\ lastCall' = [op |-> "sectorOfPoint", lat |-> lat, lng |-> lng,
                    result |-> sectorOfPoint(geofenceById, geofenceLayers, lat, lng)]
    /\ UNCHANGED sectorVars
    /\ UNCHANGED officerVars
    /\ UNCHANGED alertVars

\* a caller of the exported updateSectorCountsFrom: the legend is rendered from
\* the counts unless the call threw before reaching renderSectorLegend; again
\* records that the operation before was a call with the same map
UpdateSectorCounts(latestMap) ==
    \E r \in {updateSectorCountsFrom(geofenceById, geofenceLayers, latestMap)} :
        /\ lastCall' = [op        |-> "updateSectorCountsFrom",
                        latestMap |-> latestMap,
                        again     |-> /\ lastCall.op = "updateSectorCountsFrom"
                                      /\ lastCall.latestMap = latestMap,
                        threw     |-> r.threw]
        /\ IF r.threw
           THEN UNCHANGED <<chips, lastCountMap>>
           ELSE /\ lastCountMap' = r.counts
                /\ chips' = renderSectorLegend(r.counts)
        /\ UNCHANGED <<geofenceById, geofenceLayers>>
        /\ UNCHANGED officerVars
        /\ UNCHANGED alertVars

\* a caller of the exported getWhenS
ReadWhenS(d) ==
    /\ lastCall' = [op |-> "getWhenS", data |-> d, result |-> getWhenS(d)]
    /\ UNCHANGED sectorVars
    /\ UNCHANGED officerVars
    /\ UNCHANGED alertVars

\* a caller of the exported getWhenA
ReadWhenA(d) ==
    /\ lastCall' = [op |-> "getWhenA", data |-> d, result |-> getWhenA(d)]
    /\ UNCHANGED sectorVars
    /\ UNCHANGED officerVars
    /\ UNCHANGED alertVars

(* ------------------------------------------------------------------ *)
(* Initial state and specifications                                     *)
(* ------------------------------------------------------------------ *)

vars == <<geofenceById, geofenceLayers, chips, lastCountMap, lastCall,
          docsS, markersS, capaSerenos, countSerenos, lastLatestSerenos,
          fechaSerenos, turnoSerenos, buscador, soloComentario, debounceTimer, timerDue,
          docsA, markersA, capaAlertas, countAlertas, initialized,
          alertMode, fechaAlertas, turnoAlertas, now, listenersS, listenersA,
          flights, upstreamS, upstreamA>>

\* the modules as loaded: no geofence, an empty legend, empty caches and
\* layers, counters at 0, the panels at the defaults of the load instant
\* (officers: date and shift of todayTurnDefaults; alerts: active mode, the
\* date of today, shift "todos")
Init ==
    /\ geofenceById = <<>>
    /\ geofenceLayers = <<>>
    /\ chips = <<>>
    /\ lastCountMap = <<>>
    /\ lastCall = [op |-> "load"]
    /\ now \in LoadInstants
    /\ docsS = <<>>
    /\ markersS = <<>>
    /\ capaSerenos = {}
    /\ countSerenos = <<"0">>
    /\ lastLatestSerenos = <<>>
    /\ fechaSerenos = todayTurnDefaults(now).fecha
    /\ turnoSerenos = todayTurnDefaults(now).turno
    /\ buscador = <<>>
    /\ soloComentario = FALSE
    /\ debounceTimer = FALSE
    /\ timerDue = 0
    /\ docsA = <<>>
    /\ markersA = <<>>
    /\ capaAlertas = {}
    /\ countAlertas = <<"0">>
    /\ initialized = FALSE
    /\ alertMode = "active"
    /\ fechaAlertas = todayTurnDefaults(now).fecha
    /\ turnoAlertas = "todos"
    /\ listenersS = <<>>
    /\ listenersA = <<>>
    /\ flights = <<>>
    /\ upstreamS = <<>>
    /\ upstreamA = {}

\* the geofence listener and callers of sectorOfPoint
NextLocator ==
    \/ \E snap \in GeoSnapshots : GeofencesSnapshot(snap)
    \/ \E p \in QueryPoints : LocatePoint(p[1], p[2])

SpecLocator == Init /\ [][NextLocator]_vars

\* the geofence listener and callers of updateSectorCountsFrom
NextSectors ==
    \/ \E snap \in GeoSnapshots : GeofencesSnapshot(snap)
    \/ \E m \in PositionMaps : UpdateSectorCounts(m)

SpecSectors == Init /\ [][NextSectors]_vars

\* the officer panel filtering the attendance records of a day: the listener
\* of asistencias, the shift radios, the search box, the comment toggle
NextPersonal ==
    \/ \E snap \in AsistSnapshots : AsistenciasSnapshot(snap)
    \/ \E turno \in Turnos : ChangeTurnoSerenos(turno)
    \/ \E text \in SearchTexts : InputBuscador(text)
    \/ DebounceFires
    \/ ChangeSoloComentario

SpecPersonal == Init /\ [][NextPersonal]_vars

\* the officer panel over the geofences: the two listeners, the date, the
\* shift radios and the button "Hoy"
NextLatest ==
    \/ \E snap \in PersonalGeoSnapshots : GeofencesSnapshot(snap)
    \/ \E snap \in AsistSnapshots : AsistenciasSnapshot(snap)
    \/ \E v \in Fechas : ChangeFechaSerenos(v)
    \/ \E turno \in {"t1", "todos"} : ChangeTurnoSerenos(turno)
    \/ ClickHoyS

SpecLatest == Init /\ [][NextLatest]_vars

\* the sector legend under both listeners: every geofence snapshot, the
\* attendance snapshots of the dashboard, a shift change and the button "Hoy"
NextLegend ==
    \/ \E snap \in GeoSnapshots : GeofencesSnapshot(snap)
    \/ \E snap \in DashboardAsistSnapshots : AsistenciasSnapshot(snap)
    \/ ChangeTurnoSerenos("todos")
    \/ ClickHoyS

SpecLegend == Init /\ [][NextLegend]_vars

\* the two providers and their subscribers: subscriptions, the three
\* listeners, a shift change of the officer panel, the mode radios of the
\* alert panel and the timer
NextNotify ==
    \/ \E cb \in CallbackArgs : SubscribeSerenos(cb)
    \/ \E cb \in CallbackArgs : SubscribeAlertas(cb)
    \/ \E snap \in DashboardGeoSnapshots : GeofencesSnapshot(snap)
    \/ \E snap \in {<<AsistMorning>>, <<>>} : AsistenciasSnapshot(snap)
    \/ ChangeTurnoSerenos("todos")
    \/ \E changes \in SingleAlertBatches(docsA), later \in ClockReads(now) :
           AlertasSnapshot(changes, later)
    \/ \E mode \in {"active", "range"} : ChangeAlertMode(mode)
    \/ \E clock \in TickInstants : TimerTick(clock)

SpecNotify == Init /\ [][NextNotify]_vars

\* the alert panel: the listener of alertas, the mode radios, the date, the
\* shift radios, the button "Hoy" and the timer
NextAlertas ==
    \/ \E changes \in CatalogueBatches(docsA), later \in ClockReads(now) :
           AlertasSnapshot(changes, later)
    \/ \E mode \in {"active", "range"} : ChangeAlertMode(mode)
    \/ \E v \in Fechas : ChangeFechaAlertas(v)
    \/ \E turno \in {"t1", "t2", "todos"} : ChangeTurnoAlertas(turno)
    \/ ClickHoyA
    \/ \E clock \in TickInstants : TimerTick(clock)

SpecAlertas == Init /\ [][NextAlertas]_vars

\* the alert listener fed with batches of several changes, the mode radios
\* and the timer
NextFlights ==
    \/ \E changes \in CatalogueBatchPairs(docsA), later \in ClockReads(now) :
           AlertasSnapshot(changes, later)
    \/ \E mode \in {"active", "range"} : ChangeAlertMode(mode)
    \/ \E clock \in TickInstants : TimerTick(clock)

SpecFlights == Init /\ [][NextFlights]_vars

\* every handler of the alert panel next to the geofence listener and the
\* attendance listener
NextFrame ==
    \/ \E snap \in DashboardGeoSnapshots : GeofencesSnapshot(snap)
    \/ \E snap \in {<<AsistMorning>>, <<>>} : AsistenciasSnapshot(snap)
    \/ \E changes \in SingleAlertBatches(docsA), later \in ClockReads(now) :
           AlertasSnapshot(changes, later)
    \/ \E mode \in {"active", "range"} : ChangeAlertMode(mode)
    \/ \E v \in Fechas : ChangeFechaAlertas(v)
    \/ \E turno \in {"t2", "todos"} : ChangeTurnoAlertas(turno)
    \/ ClickHoyA
    \/ \E clock \in TickInstants : TimerTick(clock)

SpecFrame == Init /\ [][NextFrame]_vars

\* the identity of officers: the attendance listener on documents with and
\* without dni and nombre, and the shift radios of the officer panel
NextKeys ==
    \/ \E snap \in SubSeqs(KeyDocs, MaxRecords) : AsistenciasSnapshot(snap)
    \/ \E turno \in {"t1", "t2"} : ChangeTurnoSerenos(turno)

SpecKeys == Init /\ [][NextKeys]_vars

\* the colours of geofences: the geofence listener on short snapshots and on
\* snapshots longer than the palette
NextColors ==
    \E snap \in GeoSnapshots \cup PaletteSnapshots : GeofencesSnapshot(snap)

SpecColors == Init /\ [][NextColors]_vars

(* ------------------------------------------------------------------ *)
(* The dates of surveys (reportes.js)                                    *)
(* ------------------------------------------------------------------ *)

\* parseInt(x, 10) of a string: spaces are skipped and the longest run of
\* digits is read, none is NaN (no sign occurs in the inputs)
ParseInt(s) ==
    LET from == SkipSpaces(s, 1)
        n    == DigitRun(s, from)
    IN  IF n = 0 THEN NaN ELSE Num(DigitsValue(SubSeq(s, from, from + n - 1)))

\* element i of fechaStr.split("/").map(x => parseInt(x, 10)), undefined when
\* the split has fewer parts
PartInt(parts, i) == IF i <= Len(parts) THEN ParseInt(parts[i]) ELSE Undefined

\* toUpperCase on the characters a marker can hold
UpperChar(c) ==
    CASE c = "a" -> "A" [] c = "p" -> "P" [] c = "m" -> "M" [] OTHER -> c

\* String.prototype.replace(".", ""): the first point only
RemoveFirstPoint(s) ==
    IF \E i \in 1..Len(s) : s[i] = "."
    THEN LET i == CHOOSE j \in 1..Len(s) : s[j] = "." /\ \A h \in 1..(j-1) : s[h] # "."
         IN  SubSeq(s, 1, i - 1) \o SubSeq(s, i + 1, Len(s))
    ELSE s

\* the match of /^(\d{1,2}):(\d{2})(?::\d{2})?\s*([AP]\.?M\.?)$/i on x: the
\* groups 1, 2 and 3, or no match. Every quantifier of the expression has one
\* way to succeed, so the match is read from left to right.
HoraMatch(x) ==
    LET n1   == DigitRun(x, 1)
        c    == n1 + 1
        secs == /\ Len(x) >= c + 5 /\ x[c + 3] = ":"
                /\ IsDigit(x[c + 4]) /\ IsDigit(x[c + 5])
        k    == SkipSpaces(x, IF secs THEN c + 6 ELSE c + 3)
        dot1 == k + 1 <= Len(x) /\ x[k + 1] = "."
        kM   == IF dot1 THEN k + 2 ELSE k + 1
        dot2 == kM + 1 <= Len(x) /\ x[kM + 1] = "."
        last == IF dot2 THEN kM + 1 ELSE kM
        ok   == /\ n1 \in {1, 2}
                /\ Len(x) >= c + 2 /\ x[c] = ":" /\ IsDigit(x[c + 1]) /\ IsDigit(x[c + 2])
                /\ k <= Len(x) /\ x[k] \in {"A", "a", "P", "p"}
                /\ kM <= Len(x) /\ x[kM] \in {"M", "m"}
                /\ last = Len(x)
    IN  IF ok THEN [a |-> SubSeq(x, 1, n1), b |-> SubSeq(x, c + 1, c + 2), s |-> SubSeq(x, k, last)]
        ELSE Null

\* reportes.js parseFechaHora: dd/mm/yyyy and a 12-hour time with AM/PM ->
\* Date; the base is midnight of the date, or the epoch when a part of the
\* date is missing, and setHours(h, i, 0, 0) is applied to it when the time
\* matches
parseFechaHora(fechaStr, horaStr) ==
    LET parts == IF fechaStr.t = "string" /\ Includes(fechaStr.s, <<"/">>)
                 THEN Split(fechaStr.s, {"/"}) ELSE <<>>
        dd    == PartInt(parts, 1)
        mm    == PartInt(parts, 2)
        yy    == PartInt(parts, 3)
        base  == IF Truthy(dd) /\ Truthy(mm) /\ Truthy(yy)
                 THEN NewDate(yy, Num(mm.v - 1), dd) ELSE Num(0)
        m     == IF horaStr.t = "string" THEN HoraMatch(Trim(horaStr.s)) ELSE Null
    IN  IF m = Null THEN base
        ELSE LET h12  == DigitsValue(m.a) % 12
                 i    == DigitsValue(m.b)
                 ampm == RemoveFirstPoint(SeqOf([j \in 1..Len(m.s) |-> UpperChar(m.s[j])]))
                 h    == IF ampm = <<"P", "M">> THEN h12 + 12 ELSE h12
             IN  Num(base.v - (base.v % DAY) + h * HOUR + i * MINUTE)

\* whenFromEncuesta: the native timestamp when the survey has one, else the
\* date and the time it carries as text
whenFromEncuesta(d) ==
    LET t == d.timestamp
    IN  IF t.t = "timestamp" THEN Num(t.seconds * 1000)
        ELSE IF t.t = "object" /\ t.seconds.t = "number"
             THEN (IF t.seconds.nan THEN InvalidDate ELSE Num(t.seconds.v * 1000))
        ELSE parseFechaHora(d.fecha, d.hora)

\* the listener of encuestas reads the date of one survey of the snapshot
EncuestaRead(d) ==
    /\ lastCall' = [op |-> "whenFromEncuesta", data |-> d, result |-> whenFromEncuesta(d)]
    /\ UNCHANGED sectorVars
    /\ UNCHANGED officerVars
    /\ UNCHANGED alertVars

\* the spellings of the marker: AM, PM, A.M., P.M. in upper, lower and mixed
\* case, and the "a. m." and "p. m." of the documented shape; each with
\* whether it means the afternoon
MarkerSpellings ==
    {<< <<"A","M">>, FALSE >>, << <<"a","m">>, FALSE >>, << <<"A","m">>, FALSE >>,
     << <<"A",".","M",".">>, FALSE >>, << <<"a",".","m",".">>, FALSE >>,
     << <<"a","."," ","m",".">>, FALSE >>,
     << <<"P","M">>, TRUE >>, << <<"p","m">>, TRUE >>, << <<"p","M">>, TRUE >>,
     << <<"P",".","M",".">>, TRUE >>, << <<"p",".","m",".">>, TRUE >>,
     << <<"p","."," ","m",".">>, TRUE >>}

\* the hours and the minutes written in the surveys
SurveyHours == {1, 9, 10, 12}

SurveyMinutes == {0, 59}

\* the days of January 1970 the surveys are dated
SurveyDays == {2, 3}

\* the time h:mm or, with seconds, hh:mm:ss, then the gap and the marker
HoraText(h, i, secs, gap, marker) ==
    (IF secs THEN PadStart2(h) ELSE IntToString(h)) \o <<":">> \o PadStart2(i)
        \o (IF secs THEN <<":","0","7">> ELSE <<>>) \o gap \o marker

\* a survey without a native timestamp, dated dd/mm/yyyy
SurveyDoc(day, h, i, secs, gap, marker) ==
    [timestamp |-> Undefined,
     fecha     |-> Str(PadStart2(day) \o <<"/","0","1","/","1","9","7","0">>),
     hora      |-> Str(HoraText(h, i, secs, gap, marker))]

\* surveys outside the 12-hour text form: a native timestamp, a timestamp
\* object, a 24-hour time, no time, no date, a date of two parts
SurveyOddDocs ==
    {[timestamp |-> Timestamp(At(2, 9, 30)), fecha |-> Undefined, hora |-> Undefined],
     [timestamp |-> [t |-> "object", seconds |-> NaN], fecha |-> Undefined, hora |-> Undefined],
     [timestamp |-> Undefined, fecha |-> Str(<<"0","2","/","0","1","/","1","9","7","0">>),
      hora |-> Str(<<"1","5",":","3","0">>)],
     [timestamp |-> Undefined, fecha |-> Str(<<"0","2","/","0","1","/","1","9","7","0">>),
      hora |-> Undefined],
     [timestamp |-> Undefined, fecha |-> Undefined, hora |-> Str(<<"3",":","0","5"," ","P","M">>)],
     [timestamp |-> Undefined, fecha |-> Str(<<"0","2","/","0","1">>),
      hora |-> Str(<<" ","3",":","0","5","P","M"," ">>)]}

\* rowsByDay on one row dated when: the window of the shift on the day of
\* dateStr, and whether the filter keeps the row
RowsByDay(dateStr, turno, when) ==
    \E r \in {intervaloTurno(parseFecha(dateStr), turno)} :
        /\ lastCall' = [op     |-> "rowsByDay",
                        data   |-> [fecha |-> dateStr, turno |-> turno, when |-> when],
                        result |-> InShift(when, r),
                        start  |-> r.start,
                        end    |-> r.end]
        /\ UNCHANGED sectorVars
        /\ UNCHANGED officerVars
        /\ UNCHANGED alertVars

\* the value of the date input of the report on day d of January 1970
ReportFecha(d) == <<"1","9","7","0","-","0","1","-">> \o PadStart2(d)

\* the days the report is asked for, and the day before and after them
ReportDays == 1..4

\* the dates of the rows: on days 2 and 3, each hour where a shift starts or
\* ends, the millisecond before it and a minute inside the shift
RowInstants ==
    {Num(At(d, h, 0) + off) : d \in {2, 3}, h \in {0, 7, 15, 23}, off \in {0 - 1, 0, MINUTE}}

\* the dates of records: callers of getWhenS and getWhenA, the attendance
\* listener on documents whose dates are written in every way, and the date
\* and the shift radios of the officer panel
NextWhen ==
    \/ \E i \in 1..Len(WhenDocsS) : ReadWhenS(WhenDocsS[i].data)
    \/ \E d \in WhenDataA : ReadWhenA(d)
    \/ \E snap \in WhenSnapshots : AsistenciasSnapshot(snap)
    \/ \E v \in {<<"1","9","7","0","-","0","1","-","0","1">>} : ChangeFechaSerenos(v)
    \/ ChangeTurnoSerenos("todos")
    \/ ClickHoyS

SpecWhen == Init /\ [][NextWhen]_vars

\* the dates of surveys: the listener of encuestas reading surveys whose time
\* is written in every spelling, and surveys of the other shapes
NextSurveys ==
    \/ \E day \in SurveyDays, h \in SurveyHours, i \in SurveyMinutes, secs \in BOOLEAN,
          gap \in {<<>>, <<" ">>}, sp \in MarkerSpellings :
          EncuestaRead(SurveyDoc(day, h, i, secs, gap, sp[1]))
    \/ \E d \in SurveyOddDocs : EncuestaRead(d)

SpecSurveys == Init /\ [][NextSurveys]_vars

\* the report of a day and a shift: rowsByDay on a row, for every day, shift
\* and date of the row, and for the cleared date input
NextShifts ==
    \/ \E d \in ReportDays, turno \in Turnos, when \in RowInstants :
          RowsByDay(ReportFecha(d), turno, when)
    \/ \E turno \in Turnos, when \in RowInstants : RowsByDay(<<>>, turno, when)

SpecShifts == Init /\ [][NextShifts]_vars

\* the instants the clock is read at: around the hours where the default
\* shift changes and where a shift starts, up to the morning of 3 January
ClockInstants ==
    {At(2, 13, 59), At(2, 14, 0), At(2, 14, 59), At(2, 15, 0), At(2, 21, 59), At(2, 22, 30),
     At(2, 23, 0), At(3, 0, 0), At(3, 5, 59), At(3, 6, 0), At(3, 6, 59), At(3, 7, 0)}

\* an attendance record of dni 7 stamped at the instant when
StampedAt(when) ==
    [id |-> "n1",
     data |-> [NoAsistData EXCEPT
        !.nombre = Str(<<"A","n","a">>),
        !.lat = Num(5), !.lng = Num(10),
        !.timestamp = Timestamp(when),
        !.dni = Str(<<"7">>)]]

\* the officer panel through the day: the clock moves on (the timer of the
\* alert panel reads it), an officer is registered at the present moment, and
\* the button "Hoy" restores the default date and shift
NextDefaults ==
    \/ \E clock \in ClockInstants : TimerTick(clock)
    \/ AsistenciasSnapshot(<<StampedAt(now)>>)
    \/ AsistenciasSnapshot(<<>>)
    \/ ClickHoyS

SpecDefaults == Init /\ [][NextDefaults]_vars

\* the two listener sets: registrations with both providers, and the
\* handlers that recompute: the listeners of asistencias and alertas, a shift
\* change, the mode radios
NextListeners ==
    \/ \E cb \in CallbackArgs : SubscribeSerenos(cb)
    \/ \E cb \in CallbackArgs : SubscribeAlertas(cb)
    \/ \E snap \in {<<AsistMorning>>, <<>>} : AsistenciasSnapshot(snap)
    \/ ChangeTurnoSerenos("todos")
    \/ \E changes \in SingleAlertBatches(docsA) : AlertasSnapshot(changes, now)
    \/ \E mode \in {"active", "range"} : ChangeAlertMode(mode)

SpecListeners == Init /\ [][NextListeners]_vars

\* the search box in time: inputs, pauses, the timer of the debounce, and
\* the listener of asistencias and the shift radios that recompute as well
NextDebounce ==
    \/ \E text \in TypedTexts : InputInTime(text)
    \/ \E ms \in Pauses : TimePasses(ms)
    \/ TimerFires
    \/ AsistenciasSnapshot(<<AsistAna, AsistMorning>>)
    \/ ChangeTurnoSerenos("todos")

SpecDebounce == Init /\ [][NextDebounce]_vars

\* TimerFires is enabled exactly when a timer is pending and due (an officer
\* recompute can always run)
TimerIsDue == debounceTimer /\ now = timerDue

\* time does not stand still, and the event loop runs the callback of a
\* timer that is due: weak fairness of TimePasses and of TimerFires, the
\* latter, WF_vars(TimerFires), with its enabling condition written out
SpecDebounceFair ==
    /\ SpecDebounce
    /\ WF_vars(\E ms \in Pauses : TimePasses(ms))
    /\ ([]<>~TimerIsDue \/ []<><<TimerFires>>_vars)

\* the dashboard: the three listeners, a shift change and the button "Hoy" of
\* the officer panel, the mode radios of the alert panel and the timer
Next ==
    \/ \E snap \in DashboardGeoSnapshots : GeofencesSnapshot(snap)
    \/ \E snap \in DashboardAsistSnapshots : AsistenciasSnapshot(snap)
    \/ ChangeTurnoSerenos("todos")
    \/ ClickHoyS
    \/ \E changes \in AlertBatches(docsA), later \in ClockReads(now) :
           AlertasSnapshot(changes, later)
    \/ \E mode \in {"active", "range"} : ChangeAlertMode(mode)
    \/ \E clock \in TickInstants : TimerTick(clock)

Spec == Init /\ [][Next]_vars

(* ------------------------------------------------------------------ *)
(* Properties of the point locator                                      *)
(* ------------------------------------------------------------------ *)

\* the geofence of the current snapshot at position i has a polygon whose box
\* and one of whose rings contain the point
PassesAt(i, lat, lng) ==
    /\ MapHas(geofenceLayers, geofenceById[i].k)
    /\ BoundsContains(MapGet(geofenceLayers, geofenceById[i].k), lat, lng)
    /\ RingHit(MapGet(geofenceLayers, geofenceById[i].k), lat, lng)

\* the positions of the current snapshot that pass both tests at the point
PassingAt(lat, lng) == {i \in 1..Len(geofenceById) : PassesAt(i, lat, lng)}

\* C2: sectorOfPoint returns the geofence at the least position of the current
\* snapshot whose polygon passes the box test and the ring test at the point,
\* whatever passes later, and returns none exactly when no polygon passes both.
C2_FirstMatchWins ==
    lastCall.op = "sectorOfPoint" =>
        LET hits == PassingAt(lastCall.lat, lastCall.lng)
        IN  IF hits = {}
            THEN lastCall.result = Null
            ELSE LET first == CHOOSE i \in hits : \A j \in hits : i <= j
                 IN  lastCall.result = [t  |-> "hit",
                                        id |-> geofenceById[first].k,
                                        g  |-> geofenceById[first].v]

\* C2 witness: two geofences pass at the queried point and the earlier is returned
C2_Witness ==
    /\ lastCall.op = "sectorOfPoint"
    /\ Cardinality(PassingAt(lastCall.lat, lastCall.lng)) = 2
    /\ lastCall.result = [t |-> "hit", id |-> geofenceById[1].k, g |-> geofenceById[1].v]

\* the point (lat, lng) lies on the closed segment from a to b: on its line and
\* within the box of its endpoints
OnEdge(lat, lng, a, b) ==
    /\ (lng - a.lng) * (b.lat - a.lat) = (lat - a.lat) * (b.lng - a.lng)
    /\ (a.lat <= lat \/ b.lat <= lat) /\ (lat <= a.lat \/ lat <= b.lat)
    /\ (a.lng <= lng \/ b.lng <= lng) /\ (lng <= a.lng \/ lng <= b.lng)

\* the point lies on the line through a and b but not on the segment
BeyondEdge(lat, lng, a, b) ==
    /\ (lng - a.lng) * (b.lat - a.lat) = (lat - a.lat) * (b.lng - a.lng)
    /\ ~OnEdge(lat, lng, a, b)

\* the vertex before vertex i on the ring
PrevVertex(ring, i) == ring[IF i = 1 THEN Len(ring) ELSE i - 1]

\* the point lies on an edge or a vertex of the ring
OnRingBoundary(lat, lng, ring) ==
    \E i \in 1..Len(ring) : OnEdge(lat, lng, ring[i], PrevVertex(ring, i))

\* the rings of at least three vertices of the polygon at position i of the layers
PolygonRings(i) ==
    {geofenceLayers[i].v.latlngs[r] : r \in
        {q \in 1..Len(geofenceLayers[i].v.latlngs) : Len(geofenceLayers[i].v.latlngs[q]) >= 3}}

\* no edge of a drawn ring takes a point beyond its endpoints for a point on it
NoEdgeExtended(lat, lng) ==
    \A i \in 1..Len(geofenceLayers) : \A ring \in PolygonRings(i) : \A e \in 1..Len(ring) :
        BeyondEdge(lat, lng, ring[e], PrevVertex(ring, e)) =>
            ~onSegment(lng, lat, ring[e].lng, ring[e].lat,
                       PrevVertex(ring, e).lng, PrevVertex(ring, e).lat)

\* C3 as stated: a point on an edge or vertex of a polygon's ring is inside for
\* pointInRing and sectorOfPoint returns that polygon; a point on the extension
\* of an edge is not on the boundary.
C3_BoundaryIsThatPolygon ==
    lastCall.op = "sectorOfPoint" =>
        /\ \A i \in 1..Len(geofenceLayers) : \A ring \in PolygonRings(i) :
               OnRingBoundary(lastCall.lat, lastCall.lng, ring) =>
                   /\ pointInRing(lastCall.lat, lastCall.lng, ring)
                   /\ lastCall.result # Null
                   /\ lastCall.result.id = geofenceLayers[i].k
        /\ NoEdgeExtended(lastCall.lat, lastCall.lng)

\* C3 amended: a point on an edge or vertex of a polygon's ring is inside for
\* pointInRing, and sectorOfPoint returns that polygon or an earlier one of the
\* snapshot that passes its tests at the point; a point on the extension of an
\* edge is not on the boundary.
C3_BoundaryIsInside ==
    lastCall.op = "sectorOfPoint" =>
        /\ \A i \in 1..Len(geofenceLayers) : \A ring \in PolygonRings(i) :
               OnRingBoundary(lastCall.lat, lastCall.lng, ring) =>
                   /\ pointInRing(lastCall.lat, lastCall.lng, ring)
                   /\ lastCall.result # Null
                   /\ \E h \in 1..i : /\ lastCall.result.id = geofenceLayers[h].k
                                       /\ lastCall.result.g = MapGet(geofenceById, geofenceLayers[h].k)
        /\ NoEdgeExtended(lastCall.lat, lastCall.lng)

\* C3 witness: the point is on the boundary of the second polygon and an
\* earlier polygon is returned
C3_Witness ==
    /\ lastCall.op = "sectorOfPoint"
    /\ Len(geofenceLayers) = 2
    /\ \E ring \in PolygonRings(2) : OnRingBoundary(lastCall.lat, lastCall.lng, ring)
    /\ lastCall.result # Null
    /\ lastCall.result.id = geofenceLayers[1].k

\* C3 witness of the second half: the point is on the extension of an edge of
\* the only polygon and is located nowhere
C3_WitnessBeyond ==
    /\ lastCall.op = "sectorOfPoint"
    /\ Len(geofenceLayers) = 1
    /\ \E ring \in PolygonRings(1) : \E e \in 1..Len(ring) :
           BeyondEdge(lastCall.lat, lastCall.lng, ring[e], PrevVertex(ring, e))
    /\ lastCall.result = Null

(* ------------------------------------------------------------------ *)
(* Properties of the sector aggregator                                  *)
(* ------------------------------------------------------------------ *)

\* the label of the geofence in which sectorOfPoint locates the entry, or the
\* empty string when it locates it in none
LocatedLabel(info) ==
    LET s == sectorOfPoint(geofenceById, geofenceLayers, info.coords.a[1], info.coords.a[2])
    IN  IF s = Null THEN <<>> ELSE sectorLabel(s.g)

\* the entries of the map m located in a geofence labelled lab
LocatedIn(m, lab) == {i \in 1..Len(m) : LocatedLabel(m[i].v) = lab}

\* the last operation was a call of updateSectorCountsFrom with a map of the
\* documented type Map<key, { coords: [lat, lng], ... }>
CalledWithPositions ==
    /\ lastCall.op = "updateSectorCountsFrom"
    /\ \A i \in 1..Len(lastCall.latestMap) : lastCall.latestMap[i].v.coords.t = "array"

\* C1: after updateSectorCountsFrom(latest) has run with at least one drawn
\* geofence, each chip shows the number of entities of latest that
\* sectorOfPoint locates in a geofence of its label; every located entity has
\* the chip of its label, the labels are distinct (an entity is counted once)
\* and an entity located nowhere is in no count.
C1_CountsMatchLocator ==
    (CalledWithPositions /\ Len(geofenceLayers) > 0) =>
        /\ \A c \in 1..Len(chips) :
               chips[c].count = Cardinality(LocatedIn(lastCall.latestMap, chips[c].label))
        /\ \A c, d \in 1..Len(chips) : chips[c].label = chips[d].label => c = d
        /\ \A i \in 1..Len(lastCall.latestMap) :
               \/ LocatedLabel(lastCall.latestMap[i].v) = <<>>
               \/ \E c \in 1..Len(chips) :
                      chips[c].label = LocatedLabel(lastCall.latestMap[i].v)

\* C1 witness: one chip counts an entity, another counts none, and an entity
\* of the map is located nowhere
C1_Witness ==
    /\ CalledWithPositions /\ Len(geofenceLayers) > 0
    /\ \E c, d \in 1..Len(chips) : chips[c].count = 1 /\ chips[d].count = 0
    /\ \E i \in 1..Len(lastCall.latestMap) : LocatedLabel(lastCall.latestMap[i].v) = <<>>

\* C1 witness: two entities are counted in the same sector
C1_WitnessTwo ==
    /\ CalledWithPositions /\ Len(geofenceLayers) > 0
    /\ \E c \in 1..Len(chips) : chips[c].count = 2

\* the entry carries a coords pair inside -90..90 and -180..180
ValidCoords(info) ==
    /\ info.coords.t = "array"
    /\ 0 - 900 <= info.coords.a[1] /\ info.coords.a[1] <= 900
    /\ 0 - 1800 <= info.coords.a[2] /\ info.coords.a[2] <= 1800

\* C7: updateSectorCountsFrom never throws: whatever the map, entries without
\* coords or with invalid coords included, the call completes and each chip
\* counts only the entries with valid coords located in its sector.
C7_NeverThrows ==
    lastCall.op = "updateSectorCountsFrom" =>
        /\ ~lastCall.threw
        /\ \A c \in 1..Len(chips) :
               chips[c].count =
                   IF Len(geofenceLayers) = 0 THEN 0
                   ELSE Cardinality({i \in 1..Len(lastCall.latestMap) :
                            /\ ValidCoords(lastCall.latestMap[i].v)
                            /\ LocatedLabel(lastCall.latestMap[i].v) = chips[c].label})

\* C8: with no geofence drawn (no snapshot yet, an empty snapshot, or only
\* geofences without a usable point) updateSectorCountsFrom completes for any
\* positions map and every chip shows 0; with no geofence at all there is no chip.
C8_ZeroGeofenceSafety ==
    (lastCall.op = "updateSectorCountsFrom" /\ Len(geofenceLayers) = 0) =>
        /\ ~lastCall.threw
        /\ \A c \in 1..Len(chips) : chips[c].count = 0
        /\ Len(chips) = Len(lastCountMap)
        /\ Len(geofenceById) = 0 => Len(chips) = 0

\* C8 witness: no geofence at all, and a map of two entries, one without coords
C8_Witness ==
    /\ lastCall.op = "updateSectorCountsFrom"
    /\ Len(geofenceById) = 0
    /\ Len(lastCall.latestMap) = 2
    /\ \E i \in 1..2 : lastCall.latestMap[i].v.coords = Undefined
    /\ ~lastCall.threw

\* C8 witness: a geofence without a drawn polygon gives a chip showing 0
C8_WitnessUndrawn ==
    /\ lastCall.op = "updateSectorCountsFrom"
    /\ Len(geofenceLayers) = 0
    /\ Len(lastCall.latestMap) > 0
    /\ Len(chips) = 1 /\ chips[1].count = 0

NameHasNumber(name) == \E i \in 1..Len(name) : name[i] \in {"0","1","2","3","4","5","6","7","8","9"}

\* the position of the label among the keys of the count map last rendered
PosInCountMap(label) == CHOOSE i \in 1..Len(lastCountMap) : lastCountMap[i].k = label

\* C10: the chips are the entries of the count map in ascending sector number;
\* an entry whose name holds no integer comes after every numeric one; entries
\* with equal numbers keep the insertion order of the count map.
C10_DisplayOrder ==
    /\ Len(chips) = Len(lastCountMap)
    /\ \A c \in 1..Len(chips) : MapHas(lastCountMap, chips[c].label)
    /\ \A c, d \in 1..Len(chips) : c < d =>
           LET ec == MapGet(lastCountMap, chips[c].label)
               ed == MapGet(lastCountMap, chips[d].label)
           IN  /\ ec.num <= ed.num
               /\ NameHasNumber(ed.name) => NameHasNumber(ec.name)
               /\ NameHasNumber(ec.name) => ec.num < POSITIVE_INFINITY
               /\ ec.num = ed.num =>
                      PosInCountMap(chips[c].label) < PosInCountMap(chips[d].label)

\* C10 witness: a numeric chip before a non-numeric one, against the order of
\* the snapshot
C10_Witness ==
    /\ Len(chips) = 2 /\ Len(geofenceById) = 2
    /\ NameHasNumber(MapGet(lastCountMap, chips[1].label).name)
    /\ ~NameHasNumber(MapGet(lastCountMap, chips[2].label).name)
    /\ chips[2].label = sectorLabel(geofenceById[1].v)

\* C10 witness: two chips without a number, in the order of the count map
C10_WitnessTie ==
    /\ Len(chips) = 2
    /\ ~NameHasNumber(MapGet(lastCountMap, chips[1].label).name)
    /\ ~NameHasNumber(MapGet(lastCountMap, chips[2].label).name)

\* the ids of the stored geofences whose name holds the sector number n
IdsOfNumber(n) ==
    {geofenceById[i].k : i \in {j \in 1..Len(geofenceById) :
                                   sectorNumber(geofenceById[j].v.nombre) = n}}

\* the entries of the map m that sectorOfPoint locates in a geofence of ids
LocatedInIds(m, ids) ==
    {i \in 1..Len(m) :
        LET s == sectorOfPoint(geofenceById, geofenceLayers,
                               m[i].v.coords.a[1], m[i].v.coords.a[2])
        IN  s # Null /\ s.id \in ids}

\* C11: when two stored geofences with different ids have the same first
\* integer n in their names, the chips rendered by updateSectorCountsFrom hold
\* one entry labelled "S<n>" and its count is the number of entities located
\* in either geofence.
C11_SameLabelMerges ==
    (CalledWithPositions /\ Len(geofenceLayers) > 0) =>
        \A i, j \in 1..Len(geofenceById) :
            LET n == sectorNumber(geofenceById[i].v.nombre)
            IN  (i # j /\ n # POSITIVE_INFINITY
                       /\ sectorNumber(geofenceById[j].v.nombre) = n) =>
                    /\ Cardinality({c \in 1..Len(chips) :
                                     chips[c].label = <<"S">> \o IntToString(n)}) = 1
                    /\ \A c \in 1..Len(chips) :
                           chips[c].label = <<"S">> \o IntToString(n) =>
                               chips[c].count =
                                   Cardinality(LocatedInIds(lastCall.latestMap, IdsOfNumber(n)))

\* C11 witness: "Sector 4" and "Sector 04" are both drawn, each holds one
\* entity of the map, and the only chip shows 2
C11_Witness ==
    /\ CalledWithPositions
    /\ Len(geofenceLayers) = 2
    /\ sectorNumber(geofenceById[1].v.nombre) = sectorNumber(geofenceById[2].v.nombre)
    /\ \A k \in MapKeys(geofenceById) :
           Cardinality(LocatedInIds(lastCall.latestMap, {k})) = 1
    /\ Len(chips) = 1 /\ chips[1].count = 2

(* ------------------------------------------------------------------ *)
(* Properties of the geofence snapshot handler                          *)
(* ------------------------------------------------------------------ *)

\* the number of points parsePath keeps of the path of a geofence document
UsableVertices(doc) == Len(parsePath(GeofenceOfDoc(doc).path))

\* the stored geofences whose documents in the snapshot have 3 usable vertices
\* or more
StoreOfUsable(snap) ==
    SelectSeq(geofenceById,
              LAMBDA e : \E i \in 1..Len(snap) :
                             snap[i].id = e.k /\ UsableVertices(snap[i]) >= 3)

\* C12: after a geofence snapshot, a document of the snapshot with fewer than
\* 3 usable vertices (zero included) has no polygon in geofenceLayers, and the
\* base sector count map is the one of the other geofences alone.
C12_DegenerateSkipped ==
    lastCall.op = "geofencesSnapshot" =>
        /\ \A i \in 1..Len(lastCall.snap) :
               UsableVertices(lastCall.snap[i]) < 3 =>
                   ~MapHas(geofenceLayers, lastCall.snap[i].id)
        /\ lastCountMap = baseSectorCountMap(StoreOfUsable(lastCall.snap))

\* the ids of the documents of a snapshot whose activo field is not false
NotInactiveIds(snap) ==
    {snap[i].id : i \in {j \in 1..Len(snap) : snap[j].data.activo # Bool(FALSE)}}

\* C13: every geofence snapshot leaves in geofenceById exactly the documents
\* of that snapshot whose activo is not false, in geofenceLayers polygons of
\* those alone, and in the base count map labels of those alone; no other
\* operation changes the two maps, and sectorOfPoint returns only a geofence
\* the store holds. So nothing of an earlier snapshot stays stored, locatable
\* or in the base count map.
C13_OnlyLatestSnapshot ==
    [][IF lastCall'.op = "geofencesSnapshot"
       THEN /\ MapKeys(geofenceById') = NotInactiveIds(lastCall'.snap)
            /\ MapKeys(geofenceLayers') \subseteq NotInactiveIds(lastCall'.snap)
            /\ MapKeys(lastCountMap') =
                   {sectorLabel(GeofenceOfDoc(lastCall'.snap[i])) :
                        i \in {j \in 1..Len(lastCall'.snap) :
                                  lastCall'.snap[j].id \in NotInactiveIds(lastCall'.snap)}}
       ELSE /\ geofenceById' = geofenceById
            /\ geofenceLayers' = geofenceLayers
            /\ (lastCall'.op = "sectorOfPoint" /\ lastCall'.result # Null) =>
                   /\ MapHas(geofenceLayers, lastCall'.result.id)
                   /\ MapHas(geofenceById, lastCall'.result.id)
                   /\ lastCall'.result.g = MapGet(geofenceById, lastCall'.result.id)]_vars

\* C13 witness: a snapshot has replaced a store that held a geofence the
\* snapshot does not carry and has brought an inactive document; the store
\* holds the active document of the snapshot alone
C13_Witness ==
    /\ lastCall.op = "geofencesSnapshot"
    /\ \E k \in lastCall.before : \A i \in 1..Len(lastCall.snap) : lastCall.snap[i].id # k
    /\ \E i \in 1..Len(lastCall.snap) : lastCall.snap[i].data.activo = Bool(FALSE)
    /\ Len(geofenceById) = 1 /\ Len(geofenceLayers) = 1

\* C13 witness: a point that an earlier snapshot's geofence held is located
\* nowhere once a snapshot without that geofence has been processed
C13_WitnessNotLocatable ==
    /\ lastCall.op = "sectorOfPoint"
    /\ lastCall.lat = 5 /\ lastCall.lng = 3
    /\ lastCall.result = Null
    /\ Len(geofenceById) > 0

\* each chip shows the number of entries of the latest officer map that
\* sectorOfPoint locates in a geofence of its label, and every stored geofence
\* has the chip of its label
ChipsCountLatest ==
    /\ \A c \in 1..Len(chips) :
           chips[c].count = Cardinality(LocatedIn(lastLatestSerenos, chips[c].label))
    /\ {chips[c].label : c \in 1..Len(chips)} =
           {sectorLabel(geofenceById[i].v) : i \in 1..Len(geofenceById)}

\* C14 as stated: after a geofence snapshot and after an officer recompute
\* alike, the chips show the counts of the latest officer positions against
\* the current geofences.
C14_EitherSideRecounts ==
    lastCall.op \in {"geofencesSnapshot", "rebuildSerenos"} => ChipsCountLatest

\* C14: after an officer recompute the chips show the counts of the latest
\* officer positions against the current geofences, whatever a geofence
\* snapshot had left in the legend before.
C14_OfficerRecomputeRecounts ==
    lastCall.op = "rebuildSerenos" => ChipsCountLatest

\* C14 witness: an officer recompute with geofences drawn counts an officer
\* in a sector and leaves another sector at 0
C14_Witness ==
    /\ lastCall.op = "rebuildSerenos"
    /\ Len(geofenceLayers) = 2
    /\ Len(lastLatestSerenos) > 0
    /\ \E c, d \in 1..Len(chips) : chips[c].count > 0 /\ chips[d].count = 0

\* C14: the state a geofence snapshot leaves while officers are cached inside
\* a sector: every chip shows 0
C14_WitnessStale ==
    /\ lastCall.op = "geofencesSnapshot"
    /\ \E i \in 1..Len(lastLatestSerenos) : LocatedLabel(lastLatestSerenos[i].v) # <<>>
    /\ \A c \in 1..Len(chips) : chips[c].count = 0

\* the sector number a label stands for: the n of "S<n>", +Infinity for a name
NumberOfLabel(lab) == sectorNumber(Str(lab))

\* C15: right after a geofence snapshot the chips are one per distinct sector
\* label of the stored geofences, each showing 0, in ascending sector number
\* (labels without a number last), whatever officers are cached.
C15_SnapshotShowsZeros ==
    lastCall.op = "geofencesSnapshot" =>
        /\ {chips[c].label : c \in 1..Len(chips)} =
               {sectorLabel(geofenceById[i].v) : i \in 1..Len(geofenceById)}
        /\ \A c, d \in 1..Len(chips) : chips[c].label = chips[d].label => c = d
        /\ \A c \in 1..Len(chips) : chips[c].count = 0
        /\ \A c, d \in 1..Len(chips) :
               c < d => NumberOfLabel(chips[c].label) <= NumberOfLabel(chips[d].label)

\* C15 witness: a snapshot of two sectors arrives while an officer is cached
\* inside one of them; the two chips show 0, in the order of their numbers and
\* against the order of the snapshot
C15_Witness ==
    /\ lastCall.op = "geofencesSnapshot"
    /\ \E i \in 1..Len(lastLatestSerenos) : LocatedLabel(lastLatestSerenos[i].v) # <<>>
    /\ Len(chips) = 2 /\ Len(geofenceById) = 2
    /\ chips[1].label = sectorLabel(geofenceById[2].v)
    /\ NumberOfLabel(chips[1].label) < NumberOfLabel(chips[2].label)

\* C15 witness: two stored geofences of one label give one chip
C15_WitnessOneLabel ==
    /\ lastCall.op = "geofencesSnapshot"
    /\ Len(geofenceById) = 2 /\ Len(chips) = 1
    /\ Len(lastLatestSerenos) > 0

(* ------------------------------------------------------------------ *)
(* Properties of the officer provider                                   *)
(* ------------------------------------------------------------------ *)

\* the latitude and the longitude of an attendance record: the first field
\* variant the record carries
LatitudeOf(data) == Coalesce(data.lat, Coalesce(data.latitude, data.latitud))

LongitudeOf(data) ==
    Coalesce(data.lng, Coalesce(data.long, Coalesce(data.longitude, data.longitud)))

\* the value is no number, or a number outside -limit..limit (tenths of a degree)
NotACoordinate(value, limit) ==
    LET n == toNum(value) IN n.nan \/ n.v < 0 - limit \/ n.v > limit

\* the record has a numeric latitude in -90..90 and longitude in -180..180
ValidPosition(data) ==
    /\ ~NotACoordinate(LatitudeOf(data), 900)
    /\ ~NotACoordinate(LongitudeOf(data), 1800)

\* the position of a record with a valid position
PositionOf(data) == <<toNum(LatitudeOf(data)).v, toNum(LongitudeOf(data)).v>>

\* the window of the date and the shift selected in the officer panel
SelectedShift == intervaloTurno(parseFecha(fechaSerenos), turnoSerenos)

\* the conditions of the officer filter on record i of the cache, for the
\* values the controls hold: valid position, shiftStart <= t < shiftEnd, the
\* normalized search text in the normalized name or dni, and a comment that is
\* not blank when only commented records are asked for
PassesFilters(i) ==
    LET data == docsS[i].v.data
        when == docsS[i].v.when
        text == norm(Str(buscador))
    IN  /\ ValidPosition(data)
        /\ ~when.nan /\ ~SelectedShift.start.nan /\ ~SelectedShift.end.nan
        /\ SelectedShift.start.v <= when.v /\ when.v < SelectedShift.end.v
        /\ \/ Includes(norm(data.nombre), text)
           \/ Includes(norm(data.dni), text)
        /\ soloComentario => Trim(JsString(Coalesce(data.comentario, Str(<<>>)))) # <<>>

\* the records of the cache of identity k that pass the filters
PassingOf(k) == {i \in 1..Len(docsS) : keyFor(docsS[i].v.data) = k /\ PassesFilters(i)}

\* C4: after a rebuild of the officer view, every identity with a record that
\* passes the filters has exactly one entry in the latest map, no other
\* identity has one, and the entry is a passing record of that identity whose
\* timestamp is the greatest among them; its coordinates are the position of
\* the marker of the identity on the layer and the position counted in the
\* sector legend.
C4_LatestPerIdentity ==
    lastCall.op = "rebuildSerenos" =>
        /\ \A i \in 1..Len(docsS) :
               PassesFilters(i) =>
                   Cardinality({e \in 1..Len(lastLatestSerenos) :
                                   lastLatestSerenos[e].k = keyFor(docsS[i].v.data)}) = 1
        /\ \A e \in 1..Len(lastLatestSerenos) :
               LET k    == lastLatestSerenos[e].k
                   info == lastLatestSerenos[e].v
               IN  /\ \E i \in PassingOf(k) :
                          /\ docsS[i].v.data = info.data
                          /\ docsS[i].v.when = info.when
                          /\ info.coords.a = PositionOf(docsS[i].v.data)
                   /\ \A j \in PassingOf(k) : docsS[j].v.when.v <= info.when.v
                   /\ k \in capaSerenos
                   /\ MapGet(markersS, k).latlng = info.coords.a
        /\ capaSerenos = MapKeys(lastLatestSerenos)
        /\ Len(geofenceLayers) > 0 =>
               \A c \in 1..Len(chips) :
                   chips[c].count = Cardinality(LocatedIn(lastLatestSerenos, chips[c].label))

\* C4 witness: two records of one identity pass the filters at different
\* instants and positions, the older one later in the cache, and the sector of
\* the newer one counts the identity
C4_Witness ==
    /\ lastCall.op = "rebuildSerenos"
    /\ \E i, j \in 1..Len(docsS) :
          /\ i < j
          /\ PassesFilters(i) /\ PassesFilters(j)
          /\ keyFor(docsS[i].v.data) = keyFor(docsS[j].v.data)
          /\ docsS[i].v.when.v > docsS[j].v.when.v
          /\ PositionOf(docsS[i].v.data) # PositionOf(docsS[j].v.data)
    /\ \E c \in 1..Len(chips) : chips[c].count = 1

\* C4 witness: the newer of two passing records of one identity is the later
\* one in the cache
C4_WitnessNewerLater ==
    /\ lastCall.op = "rebuildSerenos"
    /\ \E i, j \in 1..Len(docsS) :
          /\ i < j
          /\ PassesFilters(i) /\ PassesFilters(j)
          /\ keyFor(docsS[i].v.data) = keyFor(docsS[j].v.data)
          /\ docsS[i].v.when.v < docsS[j].v.when.v

\* C5: after a rebuild of the officer view, an identity is in the latest map
\* if and only if one of its records has a valid position, a timestamp t with
\* shiftStart <= t < shiftEnd, the normalized search text in its normalized
\* name or dni and, when only commented records are asked for, a comment that
\* is not blank; and every entry of the map is such a record.
C5_ContributesIff ==
    lastCall.op = "rebuildSerenos" =>
        /\ MapKeys(lastLatestSerenos) =
               {keyFor(docsS[i].v.data) : i \in {j \in 1..Len(docsS) : PassesFilters(j)}}
        /\ \A e \in 1..Len(lastLatestSerenos) :
               \E i \in PassingOf(lastLatestSerenos[e].k) :
                   docsS[i].v.data = lastLatestSerenos[e].v.data

\* C5 witness: a record stamped exactly at the start of the shift is in the
\* latest map and one stamped exactly at its end is not
C5_Witness ==
    /\ lastCall.op = "rebuildSerenos"
    /\ \E i, j \in 1..Len(docsS) :
          /\ docsS[i].v.when = SelectedShift.start
          /\ MapHas(lastLatestSerenos, keyFor(docsS[i].v.data))
          /\ docsS[j].v.when = SelectedShift.end
          /\ ~MapHas(lastLatestSerenos, keyFor(docsS[j].v.data))

\* C5 witness: with a search text and the comment toggle set, one of two
\* records in the shift is in the latest map and the other, whose comment is
\* blank, is not
C5_WitnessTextComment ==
    /\ lastCall.op = "rebuildSerenos"
    /\ soloComentario /\ buscador # <<>>
    /\ Len(docsS) = 2 /\ Len(lastLatestSerenos) = 1
    /\ \E j \in 1..2 :
          /\ ValidPosition(docsS[j].v.data)
          /\ Includes(norm(docsS[j].v.data.nombre), norm(Str(buscador)))
          /\ ~PassesFilters(j)

\* C5 witness: a record with a position out of range is in the shift and in no
\* entry
C5_WitnessPosition ==
    /\ lastCall.op = "rebuildSerenos"
    /\ Len(lastLatestSerenos) = 1
    /\ \E j \in 1..Len(docsS) :
          /\ ~ValidPosition(docsS[j].v.data)
          /\ SelectedShift.start.v <= docsS[j].v.when.v
          /\ docsS[j].v.when.v < SelectedShift.end.v

(* ------------------------------------------------------------------ *)
(* Properties of the notification of subscribers                        *)
(* ------------------------------------------------------------------ *)

\* the markers on the officer layer, each with its key and its position
MarkersOnLayerS == {<<k, MapGet(markersS, k).latlng>> : k \in capaSerenos}

\* C16: whenever a callback registered with onSerenosUpdate runs, what it can
\* read is the outcome of one pass: the latest map is the one of the current
\* document cache under the current filter values, and the markers on the
\* layer, the officer count and the sector chips are those of that same map.
C16_NoIntermediateState ==
    lastCall.op = "rebuildSerenos" =>
        \A c \in 1..Len(lastCall.calls) :
            LET view == lastCall.calls[c].view
            IN  /\ view.latestMap = LatestOf(docsS, fechaSerenos, turnoSerenos,
                                              buscador, soloComentario)
                /\ view.latestMap = lastLatestSerenos
                /\ view.layer = MarkersOnLayerS
                /\ view.layer = {<<view.latestMap[i].k, view.latestMap[i].v.coords.a>> :
                                     i \in 1..Len(view.latestMap)}
                /\ view.count = countSerenos
                /\ view.count = IntToString(Len(view.latestMap))
                /\ view.legend = chips
                /\ \A d \in 1..Len(view.legend) :
                       view.legend[d].count =
                           Cardinality(LocatedIn(view.latestMap, view.legend[d].label))

\* C16 witness: a callback runs after a pass that shows an officer and counts
\* it in a sector
C16_Witness ==
    /\ lastCall.op = "rebuildSerenos"
    /\ Len(lastCall.calls) > 0
    /\ Len(lastCall.calls[1].view.latestMap) = 1
    /\ \E d \in 1..Len(chips) : chips[d].count = 1

\* C16 witness: a callback runs after a pass that removed the officer shown
\* before from the layer (its marker is kept in markersS)
C16_WitnessEmptied ==
    /\ lastCall.op = "rebuildSerenos"
    /\ Len(lastCall.calls) > 0
    /\ Len(lastCall.calls[1].view.latestMap) = 0
    /\ Len(markersS) > 0

\* the markers on the alert layer, each with its id and its position
MarkersOnLayerA == {<<k, MapGet(markersA, k).latlng>> : k \in capaAlertas}

\* the calls of the last operation are one call of each callback of
\* listeners, and of no other
CalledOnceEach(listeners) ==
    /\ Len(lastCall.calls) = Len(listeners)
    /\ \A i \in 1..Len(listeners) :
           Cardinality({c \in 1..Len(lastCall.calls) :
                           lastCall.calls[c].cb = listeners[i]}) = 1

\* C17: a completed rebuildSerenos has called every callback of the officer
\* provider's listeners exactly once and nobody else, each call made when the
\* latest map, the layer and the counter were already those of the pass; a
\* rebuildAlertas has done the same with the alert provider's listeners.
C17_EveryListenerOnce ==
    /\ (lastCall.op = "rebuildSerenos" /\ ~lastCall.threw) =>
           /\ CalledOnceEach(listenersS)
           /\ \A c \in 1..Len(lastCall.calls) :
                  /\ lastCall.calls[c].view.latestMap = lastLatestSerenos
                  /\ lastCall.calls[c].view.layer = MarkersOnLayerS
                  /\ lastCall.calls[c].view.count = countSerenos
                  /\ lastCall.calls[c].view.legend = chips
    /\ lastCall.op = "rebuildAlertas" =>
           /\ CalledOnceEach(listenersA)
           /\ \A c \in 1..Len(lastCall.calls) :
                  /\ lastCall.calls[c].view.layer = MarkersOnLayerA
                  /\ lastCall.calls[c].view.count = countAlertas

\* C17 witness: a rebuildAlertas calls the two callbacks of its provider
\* while the officer provider has a listener too
C17_Witness ==
    /\ lastCall.op = "rebuildAlertas"
    /\ Len(listenersA) = 2 /\ Len(lastCall.calls) = 2
    /\ Len(listenersS) = 1
    /\ capaAlertas # {}

\* C17 witness: a rebuildSerenos calls the only callback of its provider, one
\* that the alert provider does not have, and not the callback of the other
C17_WitnessOfficers ==
    /\ lastCall.op = "rebuildSerenos"
    /\ Len(listenersS) = 1 /\ Len(listenersA) = 1
    /\ listenersS # listenersA
    /\ Len(lastCall.calls) = 1
    /\ lastCall.calls[1].cb = listenersS[1]
    /\ Len(lastLatestSerenos) = 1

\* every callback of listeners is among the calls of the last operation
AllCalled(listeners) ==
    \A i \in 1..Len(listeners) :
        \E c \in 1..Len(lastCall.calls) : lastCall.calls[c].cb = listeners[i]

\* C18: when a callback threw during the notification of a rebuild, the
\* rebuild did not throw, every callback of the provider was called in that
\* cycle, and the provider is in the state a pass without failure leaves: the
\* latest map and the layer follow from the document cache and the filters,
\* every shown marker is kept at the position of its record, and the alert
\* handler went on to mark its first snapshot as seen.
C18_FaultyCallbackContained ==
    (/\ lastCall.op \in {"rebuildSerenos", "rebuildAlertas"}
     /\ \E c \in 1..Len(lastCall.calls) : lastCall.calls[c].threw) =>
        /\ ~lastCall.threw
        /\ lastCall.op = "rebuildSerenos" =>
               /\ AllCalled(listenersS)
               /\ lastLatestSerenos = LatestOf(docsS, fechaSerenos, turnoSerenos,
                                               buscador, soloComentario)
               /\ capaSerenos = MapKeys(lastLatestSerenos)
               /\ \A i \in 1..Len(lastLatestSerenos) :
                      /\ MapHas(markersS, lastLatestSerenos[i].k)
                      /\ MapGet(markersS, lastLatestSerenos[i].k).latlng =
                             lastLatestSerenos[i].v.coords.a
        /\ lastCall.op = "rebuildAlertas" =>
               /\ AllCalled(listenersA)
               /\ Len(docsA) > 0 => initialized
               /\ capaAlertas = MapKeys(VisibleAlerts(docsA, alertMode, now,
                                                      fechaAlertas, turnoAlertas))
               /\ \A k \in capaAlertas :
                      /\ MapHas(markersA, k)
                      /\ MapGet(markersA, k).latlng =
                             getCoords(CoordsArgA(MapGet(docsA, k).data)).a

\* C18 witness: the first of two callbacks of the alert provider threw, the
\* second was called, and the alert of the snapshot is on the layer
C18_Witness ==
    /\ lastCall.op = "rebuildAlertas"
    /\ Len(lastCall.calls) = 2
    /\ lastCall.calls[1].threw /\ ~lastCall.calls[2].threw
    /\ initialized /\ capaAlertas # {}

\* C18 witness: the same on the officer provider
C18_WitnessOfficers ==
    /\ lastCall.op = "rebuildSerenos"
    /\ Len(lastCall.calls) = 2
    /\ lastCall.calls[1].threw /\ ~lastCall.calls[2].threw
    /\ Len(lastLatestSerenos) = 1

(* ------------------------------------------------------------------ *)
(* Properties of the dashboard                                          *)
(* ------------------------------------------------------------------ *)

\* the longitude of an alert: the first field variant the record carries
LongitudeOfAlert(data) == Coalesce(data.lng, Coalesce(data.longitude, data.longitud))

\* the alert has a numeric latitude in -90..90 and longitude in -180..180
ValidAlertPosition(data) ==
    /\ ~NotACoordinate(LatitudeOf(data), 900)
    /\ ~NotACoordinate(LongitudeOfAlert(data), 1800)

\* C6: in every state, every marker on the officer layer stands for a record
\* of the latest map, taken from the cache, whose latitude and longitude are
\* numbers in range, and every marker on the alert layer stands for a cached
\* alert with such a position; no cached record without such a position has a
\* marker, and each sector chip counts only records of the latest map with
\* such a position located in its sector.
C6_NoInvalidPositionShown ==
    /\ \A k \in capaSerenos :
          /\ MapHas(lastLatestSerenos, k)
          /\ ValidPosition(MapGet(lastLatestSerenos, k).data)
          /\ \E i \in 1..Len(docsS) : docsS[i].v.data = MapGet(lastLatestSerenos, k).data
    /\ \A i \in 1..Len(docsS) :
          ~ValidPosition(docsS[i].v.data) =>
              \A e \in 1..Len(lastLatestSerenos) :
                  lastLatestSerenos[e].v.data # docsS[i].v.data
    /\ \A id \in capaAlertas :
          /\ MapHas(docsA, id)
          /\ ValidAlertPosition(MapGet(docsA, id).data)
    /\ \A c \in 1..Len(chips) :
          chips[c].count <=
              Cardinality({e \in 1..Len(lastLatestSerenos) :
                              /\ ValidPosition(lastLatestSerenos[e].v.data)
                              /\ LocatedLabel(lastLatestSerenos[e].v) = chips[c].label})

\* C6 witness: the caches hold an attendance record and an alert with a
\* position out of range next to valid ones, both layers show a marker and a
\* sector counts an officer
C6_Witness ==
    /\ \E i \in 1..Len(docsS) : ~ValidPosition(docsS[i].v.data)
    /\ \E i \in 1..Len(docsA) : ~ValidAlertPosition(docsA[i].v.data)
    /\ capaSerenos # {}
    /\ capaAlertas # {}
    /\ \E c \in 1..Len(chips) : chips[c].count = 1

\* C6 witness: an alert on the layer is modified to a latitude that is no
\* number and is off the layer after the batch
C6_WitnessModified ==
    /\ lastCall.op = "rebuildAlertas"
    /\ MapHas(docsA, "x1") /\ MapHas(markersA, "x1")
    /\ NotACoordinate(LatitudeOf(MapGet(docsA, "x1").data), 900)
    /\ "x1" \notin capaAlertas

(* ------------------------------------------------------------------ *)
(* Properties of the alert provider                                     *)
(* ------------------------------------------------------------------ *)

\* the cached alert documents with valid coordinates
LocatableAlerts ==
    {i \in 1..Len(docsA) : ValidAlertPosition(docsA[i].v.data)}

\* the date of the cached alert lies in the 30 minutes that end at the clock
InLastThirtyMinutes(i) ==
    /\ ~docsA[i].v.when.nan
    /\ now - THIRTY_MIN <= docsA[i].v.when.v
    /\ docsA[i].v.when.v <= now

\* C19: after a recompute in active mode, a cached alert with valid
\* coordinates is on the layer if and only if its date lies in the 30 minutes
\* before the clock of the recompute.
C19_ActiveIffLastThirtyMinutes ==
    (lastCall.op = "rebuildAlertas" /\ alertMode = "active") =>
        \A i \in LocatableAlerts :
            docsA[i].k \in capaAlertas <=> InLastThirtyMinutes(i)

\* C19, what the code does: the alert is on the layer if and only if it is at
\* most 30 minutes older than the clock, a date after the clock included
C19_ActiveIffNotOlder ==
    (lastCall.op = "rebuildAlertas" /\ alertMode = "active") =>
        \A i \in LocatableAlerts :
            docsA[i].k \in capaAlertas <=>
                (~docsA[i].v.when.nan /\ now - docsA[i].v.when.v <= THIRTY_MIN)

\* C19: an alert dated after the clock is shown as active
C19_WitnessFuture ==
    /\ lastCall.op = "rebuildAlertas" /\ alertMode = "active"
    /\ \E i \in LocatableAlerts :
           docsA[i].v.when.v > now /\ docsA[i].k \in capaAlertas

\* C19: an alert 30 minutes old is shown, one 31 minutes old is not
C19_WitnessBoundary ==
    /\ lastCall.op = "rebuildAlertas" /\ alertMode = "active"
    /\ \E i, j \in LocatableAlerts :
           /\ now - docsA[i].v.when.v = THIRTY_MIN /\ docsA[i].k \in capaAlertas
           /\ now - docsA[j].v.when.v = THIRTY_MIN + MINUTE /\ docsA[j].k \notin capaAlertas

\* the window of the date and the shift selected in the alert panel
SelectedAlertShift == intervaloTurno(parseFecha(fechaAlertas), turnoAlertas)

\* shiftStart <= t < shiftEnd for the cached alert
InSelectedAlertShift(i) ==
    /\ GreaterEq(docsA[i].v.when, SelectedAlertShift.start)
    /\ Less(docsA[i].v.when, SelectedAlertShift.end)

\* the ids of the cached alerts with valid coordinates that pass the filter
\* of the mode as the specification gives it
ExpectedAlertLayer ==
    {docsA[i].k : i \in {j \in LocatableAlerts :
                            IF alertMode = "active" THEN InLastThirtyMinutes(j)
                            ELSE InSelectedAlertShift(j)}}

\* the same with the active filter as the code applies it
ExpectedAlertLayerNotOlder ==
    {docsA[i].k : i \in {j \in LocatableAlerts :
                            IF alertMode = "active"
                            THEN ~docsA[j].v.when.nan /\ now - docsA[j].v.when.v <= THIRTY_MIN
                            ELSE InSelectedAlertShift(j)}}

\* C20: after an alert recompute the layer holds one marker per cached
\* document with valid coordinates that passes the filter of the mode (active:
\* the last 30 minutes; range: shiftStart <= t < shiftEnd), under the id of the
\* document and at its position, documents of one user not merged, and the
\* counter shows the number of those markers.
C20_MarkerPerDocument ==
    lastCall.op = "rebuildAlertas" =>
        /\ capaAlertas = ExpectedAlertLayer
        /\ \A id \in capaAlertas :
               /\ MapHas(markersA, id)
               /\ MapGet(markersA, id).latlng =
                      getCoords(CoordsArgA(MapGet(docsA, id).data)).a
        /\ countAlertas = IntToString(Cardinality(ExpectedAlertLayer))

\* C20, what holds: the same with "active" read as at most 30 minutes older
\* than the clock
C20_MarkerPerDocumentNotOlder ==
    lastCall.op = "rebuildAlertas" =>
        /\ capaAlertas = ExpectedAlertLayerNotOlder
        /\ \A id \in capaAlertas :
               /\ MapHas(markersA, id)
               /\ MapGet(markersA, id).latlng =
                      getCoords(CoordsArgA(MapGet(docsA, id).data)).a
        /\ countAlertas = IntToString(Cardinality(ExpectedAlertLayerNotOlder))

\* C20: two alerts of one user, both in the selected shift, have a marker
\* each and the counter shows 2
C20_WitnessSameUser ==
    /\ lastCall.op = "rebuildAlertas" /\ alertMode = "range"
    /\ Cardinality(capaAlertas) = 2 /\ countAlertas = <<"2">>
    /\ \E i, j \in 1..Len(docsA) :
           /\ i # j
           /\ docsA[i].v.data.usuarioCodigo = docsA[j].v.data.usuarioCodigo

\* C20: the alert stamped at the end of shift t1 is not shown for t1
C20_WitnessShiftEnd ==
    /\ lastCall.op = "rebuildAlertas" /\ alertMode = "range" /\ turnoAlertas = "t1"
    /\ \E i \in LocatableAlerts :
           /\ docsA[i].v.when = SelectedAlertShift.end
           /\ docsA[i].k \notin capaAlertas

(* ------------------------------------------------------------------ *)
(* Properties of the timer of the alert provider                        *)
(* ------------------------------------------------------------------ *)

\* the age at the instant clock of the cached alert id is more than 30 minutes
OlderThanThirtyMinutes(id, clock) == clock - MapGet(docsA, id).when.v > THIRTY_MIN

\* C21: a timer tick (the only step that advances the clock) in active mode
\* is a rebuildAlertas at the instant of the tick, made by the timer alone: the
\* document cache is untouched, the layer and the counter are those of the
\* cache at that instant, and no alert that was on the layer and is by then
\* older than 30 minutes is still on it; in range mode the tick calls nothing:
\* no rebuildAlertas, no callback, and markers, layer and counter stay.
C21_TickRecomputesInActiveOnly ==
    [][now' # now =>
          IF alertMode = "active"
          THEN /\ lastCall'.op = "rebuildAlertas" /\ lastCall'.by.op = "setInterval"
               /\ docsA' = docsA
               /\ capaAlertas' = MapKeys(VisibleAlerts(docsA, "active", now',
                                                       fechaAlertas, turnoAlertas))
               /\ countAlertas' = IntToString(Cardinality(capaAlertas'))
               /\ \A id \in capaAlertas :
                      OlderThanThirtyMinutes(id, now') => id \notin capaAlertas'
          ELSE /\ lastCall'.op = "timerTick"
               /\ UNCHANGED <<docsA, markersA, capaAlertas, countAlertas>>]_vars

\* C21 witness: after a tick in active mode the cached alert x1, created
\* at 08:10 and shown since the load at 08:30, is off the layer at 08:45, and
\* the subscriber of the provider was called by that pass
C21_Witness ==
    /\ lastCall.op = "rebuildAlertas" /\ lastCall.by.op = "setInterval"
    /\ alertMode = "active"
    /\ MapHas(docsA, "x1") /\ MapHas(markersA, "x1")
    /\ OlderThanThirtyMinutes("x1", now)
    /\ capaAlertas = {} /\ countAlertas = <<"0">>
    /\ Len(lastCall.calls) = 1

\* C21 witness: a tick in range mode left the alert of the selected day on
\* the layer and called nobody although the provider has a subscriber
C21_WitnessRange ==
    /\ lastCall.op = "timerTick"
    /\ alertMode = "range"
    /\ capaAlertas = {"x1"}
    /\ Len(listenersA) = 1

(* ------------------------------------------------------------------ *)
(* Properties of the camera pan on new alerts                           *)
(* ------------------------------------------------------------------ *)

\* the change adds a document that the cache docs still holds, with a valid
\* position, and that the filter of the mode shows at the instant clock
FlyCandidate(ch, docs, mode, clock, fecha, turno) ==
    /\ ch.type = "added"
    /\ MapHas(docs, ch.id)
    /\ ValidAlertPosition(MapGet(docs, ch.id).data)
    /\ IF mode = "active"
       THEN clock - MapGet(docs, ch.id).when.v <= THIRTY_MIN
       ELSE /\ GreaterEq(MapGet(docs, ch.id).when,
                         intervaloTurno(parseFecha(fecha), turno).start)
            /\ Less(MapGet(docs, ch.id).when,
                    intervaloTurno(parseFecha(fecha), turno).end)

\* C22: a run of the alert listener that found initialized false (the first
\* snapshot) calls map.flyTo never; any run calls it at most once, and a call
\* is for a change of the batch that adds a document which is cached with a
\* valid position and shown by the filter at the instant the loop reads the
\* clock, no earlier change of the batch being such; the flight goes to the
\* marker of that document, which is on the layer, and its popup is opened.
C22_FlyToFirstNewVisible ==
    [][(lastCall'.op = "rebuildAlertas" /\ lastCall'.by.op = "onSnapshot") =>
          /\ ~initialized => flights' = <<>>
          /\ Len(flights') <= 1
          /\ \A f \in 1..Len(flights') :
                 \E i \in 1..Len(lastCall'.by.snap) :
                     /\ lastCall'.by.snap[i].id = flights'[f].id
                     /\ FlyCandidate(lastCall'.by.snap[i], docsA', alertMode,
                                     flights'[f].now, fechaAlertas, turnoAlertas)
                     /\ \A j \in 1..(i - 1) :
                            ~FlyCandidate(lastCall'.by.snap[j], docsA', alertMode,
                                          flights'[f].now, fechaAlertas, turnoAlertas)
                     /\ flights'[f].id \in capaAlertas'
                     /\ flights'[f].coords = MapGet(markersA', flights'[f].id).latlng
                     /\ flights'[f].zoom = 17
                     /\ flights'[f].popup]_vars

\* the last operation was a run of the alert listener on a batch of two changes
TwoChangeBatch ==
    /\ lastCall.op = "rebuildAlertas" /\ lastCall.by.op = "onSnapshot"
    /\ Len(lastCall.by.snap) = 2

\* C22 witness: a batch added two alerts that are both on the layer, and the
\* only flight went to the first
C22_Witness ==
    /\ TwoChangeBatch
    /\ \A i \in 1..2 : /\ lastCall.by.snap[i].type = "added"
                        /\ lastCall.by.snap[i].id \in capaAlertas
    /\ Len(flights) = 1 /\ flights[1].id = lastCall.by.snap[1].id

\* C22 witness: the first snapshot added y3, which is on the layer, and no
\* flight was made
C22_WitnessFirstSnapshot ==
    /\ lastCall.op = "rebuildAlertas" /\ lastCall.by.op = "onSnapshot"
    /\ lastCall.by.snap[1].type = "added" /\ lastCall.by.snap[1].id = "y3"
    /\ "y3" \in capaAlertas
    /\ flights = <<>>

\* C22 witness: a batch modified an alert into view and added another one;
\* both are on the layer and the flight went to the added one
C22_WitnessModified ==
    /\ TwoChangeBatch
    /\ lastCall.by.snap[1].type = "modified" /\ lastCall.by.snap[1].id = "y4"
    /\ lastCall.by.snap[2].type = "added"
    /\ {"y4", lastCall.by.snap[2].id} \subseteq capaAlertas
    /\ Len(flights) = 1 /\ flights[1].id = lastCall.by.snap[2].id

\* C22 witness: the added alert y1 was 30 minutes old to the millisecond
\* when rebuildAlertas read the clock, so it is on the layer, and older when
\* the loop read it again: the flight went to the alert added after it
C22_WitnessClockMoved ==
    /\ TwoChangeBatch
    /\ lastCall.by.snap[1].type = "added" /\ lastCall.by.snap[1].id = "y1"
    /\ "y1" \in capaAlertas
    /\ Len(flights) = 1 /\ flights[1].id = lastCall.by.snap[2].id
    /\ flights[1].now = now + 1

(* ------------------------------------------------------------------ *)
(* Properties of the alert provider and the sectors                     *)
(* ------------------------------------------------------------------ *)

\* C23: a step of the alert provider (a rebuildAlertas made by the listener,
\* a mode radio, the date, a shift radio, the button "Hoy" or the timer, or a
\* tick that rebuilds nothing) leaves the sector legend, its count map, the
\* geofence store with its polygons and the officer latest map as they were;
\* a step that changes the legend is a geofence snapshot or a rebuildSerenos.
C23_AlertEventsLeaveSectorsAlone ==
    [][/\ lastCall'.op \in {"rebuildAlertas", "timerTick"} =>
              UNCHANGED <<chips, lastCountMap, geofenceById, geofenceLayers,
                          lastLatestSerenos>>
       /\ chips' # chips => lastCall'.op \in {"geofencesSnapshot", "rebuildSerenos"}]_vars

\* C23 witness: the alert listener has put an alert on the layer while the
\* legend shows an officer counted in the only sector
C23_Witness ==
    /\ lastCall.op = "rebuildAlertas" /\ lastCall.by.op = "onSnapshot"
    /\ capaAlertas # {}
    /\ Len(geofenceById) = 1 /\ Len(lastLatestSerenos) = 1
    /\ \E c \in 1..Len(chips) : chips[c].count = 1

\* C23 witness: the same after a timer tick in active mode that emptied the layer
C23_WitnessTick ==
    /\ lastCall.op = "rebuildAlertas" /\ lastCall.by.op = "setInterval"
    /\ MapHas(docsA, "x1") /\ capaAlertas = {}
    /\ \E c \in 1..Len(chips) : chips[c].count = 1

(* ------------------------------------------------------------------ *)
(* Properties of the document caches                                    *)
(* ------------------------------------------------------------------ *)

\* the documents of a cache as (id, data) pairs
CachedDocuments(docs) == {[id |-> docs[i].k, data |-> docs[i].v.data] : i \in 1..Len(docs)}

\* C24: in every state (so after every event) the officer cache holds one
\* entry per document of the last attendance snapshot and no other, the alert
\* cache one entry per document of the collection alertas as the batches
\* delivered so far leave it and no other, each entry with the data of its
\* document and the date that getWhenS or getWhenA gives for that data.
C24_CachesMirrorUpstream ==
    /\ Len(docsS) = Len(upstreamS)
    /\ CachedDocuments(docsS) =
           {[id |-> upstreamS[i].id, data |-> upstreamS[i].data] : i \in 1..Len(upstreamS)}
    /\ \A i \in 1..Len(docsS) : docsS[i].v.when = getWhenS(docsS[i].v.data)
    /\ Len(docsA) = Cardinality(upstreamA)
    /\ CachedDocuments(docsA) = upstreamA
    /\ \A i \in 1..Len(docsA) :
           /\ docsA[i].v.id = docsA[i].k
           /\ docsA[i].v.when = getWhenA(docsA[i].v.data)

\* C24 witness: a batch has removed one alert and modified the other while
\* the officer cache holds the only document of the last attendance snapshot
C24_Witness ==
    /\ lastCall.op = "rebuildAlertas" /\ lastCall.by.op = "onSnapshot"
    /\ Len(lastCall.by.snap) = 2
    /\ \E i, j \in 1..2 : /\ lastCall.by.snap[i].type = "removed"
                           /\ lastCall.by.snap[j].type = "modified"
    /\ Len(docsA) = 1
    /\ Len(docsS) = 1

\* C24 witness: an attendance snapshot without documents has emptied the
\* officer cache, whose markers of before are kept
C24_WitnessEmptied ==
    /\ lastCall.op = "rebuildSerenos"
    /\ docsS = <<>> /\ Len(markersS) > 0
    /\ Len(docsA) = 2

(* ------------------------------------------------------------------ *)
(* Properties of the dates of records                                   *)
(* ------------------------------------------------------------------ *)

\* the value is a timestamp in a format both variants accept: a Firestore
\* Timestamp, an object with a number of seconds, or a string Date reads
ReadableTimestamp(t) ==
    \/ t.t = "timestamp"
    \/ t.t = "object" /\ t.seconds.t = "number" /\ ~t.seconds.nan
    \/ t.t = "string" /\ ~DateParse(t.s).nan

\* the value is a date written dd/mm/yyyy or dd-mm-yyyy
DayMonthYear(v) ==
    /\ v.t = "string"
    /\ Len(Split(v.s, {"/", "-"})) = 3
    /\ \A i \in 1..3 : /\ Split(v.s, {"/", "-"})[i] # <<>>
                        /\ \A c \in 1..Len(Split(v.s, {"/", "-"})[i]) :
                               IsDigit(Split(v.s, {"/", "-"})[i][c])

\* the date of the attendance record can be read in an accepted format
ReadableS(d) == ReadableTimestamp(d.timestamp) \/ DayMonthYear(d.fecha)

\* the date of the alert can be read in an accepted format
ReadableA(d) ==
    \/ ReadableTimestamp(d.createdAt)
    \/ d.createdAt.t = "number" /\ ~d.createdAt.nan

\* the window of the officer panel is one of a date after 1 January 1970
LaterWindow == Greater(intervaloTurno(parseFecha(fechaSerenos), turnoSerenos).start, Num(0))

\* C25: getWhenS and getWhenA never return an Invalid Date, and return the
\* epoch for a record whose date is in no accepted format; such a record in
\* the officer cache is dated at the epoch and, when the window of the panel
\* is of a later date, is not in the latest map.
C25_UnreadableDateIsEpoch ==
    /\ lastCall.op = "getWhenS" =>
           /\ ~lastCall.result.nan
           /\ ~ReadableS(lastCall.data) => lastCall.result = Num(0)
    /\ lastCall.op = "getWhenA" =>
           /\ ~lastCall.result.nan
           /\ ~ReadableA(lastCall.data) => lastCall.result = Num(0)
    /\ \A i \in 1..Len(docsS) :
           ~ReadableS(docsS[i].v.data) =>
               /\ docsS[i].v.when = Num(0)
               /\ LaterWindow => ~MapHas(lastLatestSerenos, keyFor(docsS[i].v.data))

(* ------------------------------------------------------------------ *)
(* Properties of the identity of officers                               *)
(* ------------------------------------------------------------------ *)

\* the text of a dni or a nombre without the blanks around it; nothing for a
\* field that is missing, null, empty, blank or the number 0
TextOf(v) ==
    IF v.t = "string" THEN Trim(v.s)
    ELSE IF v.t = "number" /\ ~v.nan /\ v.v # 0 THEN IntToString(v.v)
    ELSE <<>>

\* the identity of a record: its dni, else its nombre, else the sentinel
Identity(data) ==
    IF TextOf(data.dni) # <<>> THEN TextOf(data.dni)
    ELSE IF TextOf(data.nombre) # <<>> THEN TextOf(data.nombre)
    ELSE SIN_ID

\* the cached records inside the window of the officer panel
CachedInWindow ==
    {i \in 1..Len(docsS) :
        /\ GreaterEq(docsS[i].v.when,
                     intervaloTurno(parseFecha(fechaSerenos), turnoSerenos).start)
        /\ Less(docsS[i].v.when,
                intervaloTurno(parseFecha(fechaSerenos), turnoSerenos).end)}

C26_WitnessTrimmed ==
    /\ lastCall.op = "rebuildSerenos"
    /\ MapKeys(lastLatestSerenos) = {<<"7">>, <<"A","n","a">>}
    /\ MapGet(lastLatestSerenos, <<"A","n","a">>).data.dni = Num(0)

(* ------------------------------------------------------------------ *)
(* Properties of the colours of geofences                               *)
(* ------------------------------------------------------------------ *)

\* the documents of a snapshot whose activo is not false, in its order
ActiveOf(snap) == Pick(snap, {j \in 1..Len(snap) : snap[j].data.activo # Bool(FALSE)}, 1)

\* the colour a document states: color, else colour
ExplicitColor(doc) == Or(doc.data.color, doc.data.colour)

\* the colour of the document at position i (from 1) of the active documents:
\* its own, else the palette colour of index (i - 1) mod 7
ColorOfPosition(active, i) ==
    IF Truthy(ExplicitColor(active[i])) THEN ExplicitColor(active[i]).s
    ELSE defaultColors[((i - 1) % 7) + 1]

\* the colour the stored geofence of the document carries: _color, else color
StoredColor(doc) ==
    Or(MapGet(geofenceById, doc.id)._color, MapGet(geofenceById, doc.id).color)

\* C27 as stated: after a geofence snapshot every active geofence carries its
\* own colour or, without one, the palette colour of its position; its polygon
\* has that colour, and the chip of its label shows that colour.
C27_ColorByPosition ==
    lastCall.op = "geofencesSnapshot" =>
        \A i \in 1..Len(ActiveOf(lastCall.snap)) :
            /\ StoredColor(ActiveOf(lastCall.snap)[i]) =
                   Str(ColorOfPosition(ActiveOf(lastCall.snap), i))
            /\ MapHas(geofenceLayers, ActiveOf(lastCall.snap)[i].id) =>
                   MapGet(geofenceLayers, ActiveOf(lastCall.snap)[i].id).color =
                       ColorOfPosition(ActiveOf(lastCall.snap), i)
            /\ \A c \in 1..Len(chips) :
                   chips[c].label = sectorLabel(GeofenceOfDoc(ActiveOf(lastCall.snap)[i])) =>
                       chips[c].color = ColorOfPosition(ActiveOf(lastCall.snap), i)

\* the document has a colour after the snapshot: its own, or one of the
\* palette, which it gets when its path has a usable point
Coloured(doc) == Truthy(ExplicitColor(doc)) \/ UsableVertices(doc) > 0

\* the last position of the active documents whose label is lab
LastOfLabel(active, lab) ==
    CHOOSE i \in 1..Len(active) :
        /\ sectorLabel(GeofenceOfDoc(active[i])) = lab
        /\ \A j \in (i + 1)..Len(active) : sectorLabel(GeofenceOfDoc(active[j])) # lab

\* C27 amended: after a geofence snapshot an active geofence with a colour of
\* its own carries it; one without, whose path has a usable point, carries the
\* palette colour of index (i - 1) mod 7 for its position i among the active
\* documents; one without colour and without usable point carries none. A
\* polygon has the colour of its geofence, and the chip of a label shows the
\* colour of the last active geofence of that label, grey if it carries none.
C27_ColorByPositionOfLast ==
    lastCall.op = "geofencesSnapshot" =>
        /\ \A i \in 1..Len(ActiveOf(lastCall.snap)) :
               /\ StoredColor(ActiveOf(lastCall.snap)[i]) =
                      (IF Coloured(ActiveOf(lastCall.snap)[i])
                       THEN Str(ColorOfPosition(ActiveOf(lastCall.snap), i))
                       ELSE Undefined)
               /\ MapHas(geofenceLayers, ActiveOf(lastCall.snap)[i].id) =>
                      MapGet(geofenceLayers, ActiveOf(lastCall.snap)[i].id).color =
                          ColorOfPosition(ActiveOf(lastCall.snap), i)
        /\ \A c \in 1..Len(chips) :
               chips[c].color =
                   (IF Coloured(ActiveOf(lastCall.snap)[
                           LastOfLabel(ActiveOf(lastCall.snap), chips[c].label)])
                    THEN ColorOfPosition(ActiveOf(lastCall.snap),
                                         LastOfLabel(ActiveOf(lastCall.snap), chips[c].label))
                    ELSE GREY)

\* C27 witness: the eighth active geofence of a snapshot that starts with an
\* inactive one has the first colour of the palette, as has the first, on
\* its polygon and on its chip
C27_Witness ==
    /\ lastCall.op = "geofencesSnapshot"
    /\ Len(lastCall.snap) = 9 /\ Len(geofenceById) = 8
    /\ geofenceById[8].v._color = Str(defaultColors[1])
    /\ geofenceById[1].v._color = Str(defaultColors[1])
    /\ geofenceById[7].v._color = Str(defaultColors[7])
    /\ geofenceLayers[8].v.color = defaultColors[1]
    /\ chips[8].color = defaultColors[1]

\* C27 witness: Sector 4 and Sector 04 have two colours of the palette and
\* the only chip, S4, shows the colour of Sector 04
C27_WitnessMerged ==
    /\ lastCall.op = "geofencesSnapshot"
    /\ Len(geofenceById) = 2 /\ Len(chips) = 1
    /\ geofenceById[1].v._color = Str(defaultColors[1])
    /\ geofenceById[2].v._color = Str(defaultColors[2])
    /\ chips[1].color = defaultColors[2]

\* C27 witness: Sector 9, without colour and without usable point, is stored
\* without colour and its chip is grey
C27_WitnessNoColour ==
    /\ lastCall.op = "geofencesSnapshot"
    /\ \E i \in 1..Len(geofenceById) :
           /\ geofenceById[i].v._color = Undefined /\ geofenceById[i].v.color = Undefined
           /\ \E c \in 1..Len(chips) :
                  chips[c].label = sectorLabel(geofenceById[i].v) /\ chips[c].color = GREY

(* ------------------------------------------------------------------ *)
(* The officer layer after a recompute                                   *)
(* ------------------------------------------------------------------ *)

\* the identities of the latest map
LatestKeys == {lastLatestSerenos[i].k : i \in 1..Len(lastLatestSerenos)}

\* the layer, the markers and the counter agree with the latest map
LayerShowsLatest ==
    /\ capaSerenos = LatestKeys
    /\ \A i \in 1..Len(lastLatestSerenos) :
          /\ MapHas(markersS, lastLatestSerenos[i].k)
          /\ MapGet(markersS, lastLatestSerenos[i].k).latlng = lastLatestSerenos[i].v.coords.a
    /\ countSerenos = IntToString(Cardinality(LatestKeys))

\* the cache and the values of the four filter controls, none of them waiting
\* for the debounce timer
RecomputeInputs == <<docsS, fechaSerenos, turnoSerenos, buscador, soloComentario>>

\* C28: after every run of rebuildSerenos the markers on the officer layer are
\* exactly those of the identities of the latest map, each at the latest
\* coordinates of its identity, and #countSerenos shows the size of the latest
\* map; a run on an unchanged cache and unchanged filter values leaves the
\* layer, the positions of its markers and the counter as they were.
C28_LayerIsLatestMap ==
    [][lastCall'.op = "rebuildSerenos" =>
          /\ LayerShowsLatest'
          /\ (~debounceTimer /\ LayerShowsLatest /\ RecomputeInputs' = RecomputeInputs) =>
                /\ capaSerenos' = capaSerenos
                /\ countSerenos' = countSerenos
                /\ MarkersOnLayerS' = MarkersOnLayerS]_vars

\* a recompute took a marker off the layer and moved no identity out of the
\* latest map: two markers exist, one identity passes the filter
C28_Witness ==
    /\ lastCall.op = "rebuildSerenos"
    /\ Len(markersS) = 2
    /\ Cardinality(capaSerenos) = 1
    /\ countSerenos = <<"1">>

\* a recompute moved an existing marker to the later coordinates of its identity
C28_WitnessMoved ==
    /\ lastCall.op = "rebuildSerenos"
    /\ \E i \in 1..Len(lastLatestSerenos) :
          /\ lastLatestSerenos[i].v.coords.a = <<5, 10>>
          /\ \E j \in 1..Len(docsS) : /\ docsS[j].k # "a3"
                                       /\ keyFor(docsS[j].v.data) = lastLatestSerenos[i].k

(* ------------------------------------------------------------------ *)
(* The time of a survey                                                  *)
(* ------------------------------------------------------------------ *)

\* the hour of the day of the hour h of a 12-hour clock
Hour24(h, pm) == (h % 12) + (IF pm THEN 12 ELSE 0)

\* the marker of a time: what follows its digits, colons and spaces
MarkerOf(hora) ==
    IF \E j \in 1..Len(hora) : ~IsDigit(hora[j]) /\ hora[j] \notin {":", " "}
    THEN SubSeq(hora, CHOOSE j \in 1..Len(hora) :
                          /\ ~IsDigit(hora[j]) /\ hora[j] \notin {":", " "}
                          /\ \A h \in 1..(j - 1) : IsDigit(hora[h]) \/ hora[h] \in {":", " "},
                Len(hora))
    ELSE <<>>

\* the survey just read has no native timestamp, is dated dd/01/1970 and
\* carries a 12-hour time whose marker is one of the spellings
TwelveHourSurvey(spellings) ==
    /\ lastCall.op = "whenFromEncuesta"
    /\ lastCall.data.timestamp = Undefined
    /\ lastCall.data.fecha.t = "string" /\ Len(lastCall.data.fecha.s) = 10
    /\ lastCall.data.hora.t = "string"
    /\ \E sp \in spellings : MarkerOf(lastCall.data.hora.s) = sp[1]

\* the date of the survey just read is its day at the hour of the 24-hour
\* clock and the minute it carries
ReadAsClock ==
    LET hora == lastCall.data.hora.s
        n    == DigitRun(hora, 1)
        day  == DigitsValue(SubSeq(lastCall.data.fecha.s, 1, 2))
        h    == DigitsValue(SubSeq(hora, 1, n))
        i    == DigitsValue(SubSeq(hora, n + 2, n + 3))
        pm   == MarkerOf(hora)[1] \in {"P", "p"}
    IN  lastCall.result = Num(At(day, Hour24(h, pm), i))

\* C29: for a survey without a native timestamp, the date read from its
\* dd/mm/yyyy date and its 12-hour time is that date at the hour of the
\* 24-hour clock (12 AM is 0, 12 PM is 12, h PM is h + 12), in every spelling
\* of the marker: AM, PM, A.M., P.M. in any letter case and the documented
\* "hh:mm:ss a. m./p. m.".
C29_TwelveHourTime == TwelveHourSurvey(MarkerSpellings) => ReadAsClock

\* the spellings without a point, and those of the morning with two points
\* and no space
PlainSpellings ==
    {sp \in MarkerSpellings : \/ "." \notin {sp[1][j] : j \in 1..Len(sp[1])}
                              \/ ~sp[2] /\ " " \notin {sp[1][j] : j \in 1..Len(sp[1])}}

\* the 12-hour time is read as the 24-hour one in the spellings AM, PM and
\* A.M., in any letter case
PlainSpellingsReadAsClock == TwelveHourSurvey(PlainSpellings) => ReadAsClock

\* the afternoon spelling with two points is read as the morning
PointedAfternoonReadAsMorning ==
    (TwelveHourSurvey({sp \in MarkerSpellings : sp[2]})
        /\ MarkerOf(lastCall.data.hora.s) \in {<<"P",".","M",".">>, <<"p",".","m",".">>})
    => lastCall.result.v % (12 * HOUR) = lastCall.result.v % DAY

\* the time of the documented spelling is not read: the date is midnight
DocumentedSpellingReadAsMidnight ==
    (TwelveHourSurvey(MarkerSpellings) /\ " " \in {MarkerOf(lastCall.data.hora.s)[j] :
                                                      j \in 1..Len(MarkerOf(lastCall.data.hora.s))})
    => lastCall.result.v % DAY = 0

(* ------------------------------------------------------------------ *)
(* The windows of the shifts                                             *)
(* ------------------------------------------------------------------ *)

\* the window of shift turno on day d of January 1970
WindowOf(d, turno) == intervaloTurno(parseFecha(ReportFecha(d)), turno)

\* the day of the date asked for in the last call of rowsByDay
AskedDay == DigitsValue(SubSeq(lastCall.data.fecha, 9, 10))

\* the days and shifts whose window holds the instant when
ShiftsHolding(when) ==
    {w \in ReportDays \X {"t1", "t2", "t3"} : InShift(when, WindowOf(w[1], w[2]))}

\* C30: on a base date D the windows are t1 = [07:00, 15:00), t2 = [15:00,
\* 23:00), t3 = [23:00, 07:00 of D+1) and todos = [00:00 of D, 00:00 of D+1),
\* each holding its start and not its end; the end of a shift is the start of
\* the next one, and every instant is in the window of exactly one shift
\* t1/t2/t3 of exactly one base date.
C30_ShiftWindowsPartition ==
    (lastCall.op = "rowsByDay" /\ lastCall.data.fecha # <<>>) =>
        LET d    == AskedDay
            t    == lastCall.data.turno
            when == lastCall.data.when
        IN  /\ lastCall.start = Num(CASE t = "t1" -> At(d, 7, 0) [] t = "t2" -> At(d, 15, 0)
                                       [] t = "t3" -> At(d, 23, 0) [] OTHER -> At(d, 0, 0))
            /\ lastCall.end = Num(CASE t = "t1" -> At(d, 15, 0) [] t = "t2" -> At(d, 23, 0)
                                     [] t = "t3" -> At(d + 1, 7, 0) [] OTHER -> At(d + 1, 0, 0))
            /\ lastCall.result = (lastCall.start.v <= when.v /\ when.v < lastCall.end.v)
            /\ WindowOf(d, "t1").end = WindowOf(d, "t2").start
            /\ WindowOf(d, "t2").end = WindowOf(d, "t3").start
            /\ WindowOf(d, "t3").end = WindowOf(d + 1, "t1").start
            /\ Cardinality(ShiftsHolding(when)) = 1

\* a row dated 06:59:59.999 of day 3 asked for the night shift of day 2: kept
C30_Witness ==
    /\ lastCall.op = "rowsByDay"
    /\ lastCall.data.fecha = ReportFecha(2) /\ lastCall.data.turno = "t3"
    /\ lastCall.data.when = Num(At(3, 7, 0) - 1)
    /\ lastCall.result

\* a row dated 15:00 asked for the morning shift of its day: left out
C30_WitnessEnd ==
    /\ lastCall.op = "rowsByDay"
    /\ lastCall.data.fecha = ReportFecha(2) /\ lastCall.data.turno = "t1"
    /\ lastCall.data.when = Num(At(2, 15, 0))
    /\ ~lastCall.result

\* a row dated midnight asked for the whole day that starts then: kept
C30_WitnessTodos ==
    /\ lastCall.op = "rowsByDay"
    /\ lastCall.data.fecha = ReportFecha(3) /\ lastCall.data.turno = "todos"
    /\ lastCall.data.when = Num(At(3, 0, 0))
    /\ lastCall.result

(* ------------------------------------------------------------------ *)
(* The default date and shift                                            *)
(* ------------------------------------------------------------------ *)

\* the window of the default date and shift at the instant clock
DefaultWindow(clock) ==
    intervaloTurno(parseFecha(todayTurnDefaults(clock).fecha), todayTurnDefaults(clock).turno)

\* the officer panel shows the defaults of the present moment and the cache
\* holds a record stamped at the present moment
DefaultsOnRecordOfNow ==
    /\ lastCall.op = "rebuildSerenos"
    /\ fechaSerenos = todayTurnDefaults(now).fecha
    /\ turnoSerenos = todayTurnDefaults(now).turno
    /\ Len(docsS) = 1 /\ docsS[1].v.when = Num(now)

\* C31: at every instant now the window of the default date and shift holds
\* now (start <= now < end), and a record stamped at the present moment is
\* shown under the default officer filter.
C31_DefaultWindowHoldsNow ==
    /\ InShift(Num(now), DefaultWindow(now))
    /\ DefaultsOnRecordOfNow => capaSerenos = {keyFor(docsS[1].v.data)}

\* the window of the defaults holds now or starts within the hour
DefaultWindowWithinTheHour ==
    /\ GreaterEq(Num(now + HOUR), DefaultWindow(now).start)
    /\ Less(Num(now), DefaultWindow(now).end)

\* in the hour before a shift starts the defaults are those of that shift
\* and the record of the present moment is not shown
DefaultsOfTheNextShift ==
    (DefaultsOnRecordOfNow /\ getHours(now) \in {6, 14, 22}) => capaSerenos = {}

(* ------------------------------------------------------------------ *)
(* The labels of the sector legend                                       *)
(* ------------------------------------------------------------------ *)

\* the labels of the base count map of the stored geofences
BaseLabels == MapKeys(baseSectorCountMap(geofenceById))

\* the labels of the chips on display
ChipLabels == {chips[i].label : i \in 1..Len(chips)}

\* the points the locator is asked about: the query points and the positions
\* of the entities
ProbePoints ==
    QueryPoints \cup {Entities[i].v.coords.a : i \in {j \in 1..Len(Entities) :
                                                         Entities[j].v.coords.t = "array"}}

\* C32: every polygon of the layer set has its geofence in the store, the
\* label of a geofence returned by sectorOfPoint is a key of the base count
\* map, so that no count entry is ever made outside the base map: the count
\* map and the chips carry exactly the labels of the base map, with or
\* without officers.
C32_NoLabelOutsideBase ==
    /\ MapKeys(geofenceLayers) \subseteq MapKeys(geofenceById)
    /\ \A p \in ProbePoints :
          \E s \in {sectorOfPoint(geofenceById, geofenceLayers, p[1], p[2])} :
              s # Null => sectorLabel(s.g) \in BaseLabels
    /\ MapKeys(lastCountMap) = BaseLabels
    /\ ChipLabels = BaseLabels

\* officers were counted: a chip shows a count above zero
C32_Witness ==
    /\ lastCall.op = "updateSectorCountsFrom"
    /\ ~lastCall.threw
    /\ Len(geofenceLayers) = 2
    /\ \E i \in 1..Len(chips) : chips[i].count >= 1

\* two geofences of one label are stored: one chip stands for both
C32_WitnessMerged ==
    /\ Len(geofenceById) = 2
    /\ Cardinality(BaseLabels) = 1
    /\ \E i \in 1..Len(chips) : chips[i].count >= 1

(* ------------------------------------------------------------------ *)
(* The markers of the alerts                                             *)
(* ------------------------------------------------------------------ *)

\* the ids whose last change in the batch just handled is of type removed
RemovedIds ==
    IF lastCall.op = "rebuildAlertas" /\ lastCall.by.op = "onSnapshot"
    THEN {lastCall.by.snap[i].id : i \in {j \in 1..Len(lastCall.by.snap) :
              /\ lastCall.by.snap[j].type = "removed"
              /\ \A h \in (j + 1)..Len(lastCall.by.snap) :
                     lastCall.by.snap[h].id # lastCall.by.snap[j].id}}
    ELSE {}

\* C33: a marker is kept only for a cached alert document (the keys of
\* markersA are keys of docsA) and only kept markers are on the layer; after
\* a change of type removed the document is out of the cache, its marker out
\* of the marker cache and off the layer.
C33_MarkersOfCachedAlerts ==
    /\ MapKeys(markersA) \subseteq MapKeys(docsA)
    /\ capaAlertas \subseteq MapKeys(markersA)
    /\ \A id \in RemovedIds :
          /\ ~MapHas(docsA, id)
          /\ ~MapHas(markersA, id)
          /\ id \notin capaAlertas

\* an alert was removed while another one keeps its marker on the layer
C33_Witness ==
    /\ RemovedIds # {}
    /\ capaAlertas # {}
    /\ Len(markersA) = Len(docsA)

\* a cached alert without a marker: it was never shown
C33_WitnessNoMarker ==
    /\ Len(docsA) = 2
    /\ Len(markersA) = 1

(* ------------------------------------------------------------------ *)
(* The listener sets                                                     *)
(* ------------------------------------------------------------------ *)

\* the set after is the set before, with new members after the old ones
Grown(before, after) ==
    /\ Len(after) >= Len(before)
    /\ SubSeq(after, 1, Len(before)) = before

\* a set of functions, each held once
FunctionsOnce(set) ==
    /\ \A i \in 1..Len(set) : set[i].t = "function"
    /\ \A i, j \in 1..Len(set) : set[i] = set[j] => i = j

\* the callbacks called by the recompute just made, in the order of the calls
Called == [i \in 1..Len(lastCall.calls) |-> lastCall.calls[i].cb]

\* C34: the listener set of each provider only grows and holds functions,
\* each once; every recompute calls every registered callback exactly once
\* (a callback registered earlier is still called, one registered twice is
\* called once), and handing in a value that is no function or a function
\* already registered leaves the sets as they were.
C34_ListenersOnlyGrow ==
    [][/\ Grown(listenersS, listenersS') /\ Grown(listenersA, listenersA')
       /\ FunctionsOnce(listenersS') /\ FunctionsOnce(listenersA')
       /\ lastCall'.op = "rebuildSerenos" => SeqOf(Called') = listenersS'
       /\ lastCall'.op = "rebuildAlertas" => SeqOf(Called') = listenersA'
       /\ lastCall'.op = "onSerenosUpdate" =>
             /\ listenersA' = listenersA
             /\ (lastCall'.cb.t # "function" \/ \E i \in 1..Len(listenersS) :
                                                     listenersS[i] = lastCall'.cb)
                   => listenersS' = listenersS
       /\ lastCall'.op = "onAlertasUpdate" =>
             /\ listenersS' = listenersS
             /\ (lastCall'.cb.t # "function" \/ \E i \in 1..Len(listenersA) :
                                                     listenersA[i] = lastCall'.cb)
                   => listenersA' = listenersA]_vars

\* an officer recompute called two registered callbacks, the first of which threw
C34_Witness ==
    /\ lastCall.op = "rebuildSerenos"
    /\ Len(lastCall.calls) = 2
    /\ lastCall.calls[1].threw
    /\ Len(listenersA) = 1

\* an alert recompute called two registered callbacks
C34_WitnessAlerts ==
    /\ lastCall.op = "rebuildAlertas"
    /\ Len(lastCall.calls) = 2

\* a function already registered was handed in again
C34_WitnessAgain ==
    /\ lastCall.op = "onSerenosUpdate"
    /\ lastCall.cb = Fn("refresh")
    /\ listenersS = <<Fn("refresh"), Fn("faulty")>>

\* a value that is no function was handed in
C34_WitnessNoFunction ==
    /\ lastCall.op = "onAlertasUpdate"
    /\ lastCall.cb = Null
    /\ Len(listenersA) = 1

(* ------------------------------------------------------------------ *)
(* The debounce of the search box                                        *)
(* ------------------------------------------------------------------ *)

\* the step is an input event on #buscador
InputStep == buscador' # buscador

\* the step is the run of the callback of the debounce timer
FireStep == debounceTimer /\ ~debounceTimer'

\* what an officer recompute writes
OfficerView == <<markersS, capaSerenos, countSerenos, lastLatestSerenos>>

\* C35: an input event on the search box recomputes nothing and leaves one
\* timer pending, due 140 ms after it, in place of the one that was
\* pending; the timer runs one officer recompute at the instant it is due,
\* which reads the search text of that instant, and no timer is pending
\* after it: a burst of inputs less than 140 ms apart causes one recompute,
\* 140 ms after its last event. A pending timer always fires in the end.
C35_DebouncedSearch ==
    /\ [][/\ InputStep =>
              /\ debounceTimer' /\ timerDue' = now + DEBOUNCE_MS
              /\ OfficerView' = OfficerView
          /\ FireStep =>
              /\ now = timerDue /\ now' = now
              /\ timerDue' = 0
              /\ lastCall'.op = "rebuildSerenos"
              /\ lastLatestSerenos' = LatestOf(docsS, fechaSerenos, turnoSerenos,
                                               buscador, soloComentario)
              /\ buscador' = buscador
              /\ LayerShowsLatest'
          /\ (~InputStep /\ ~FireStep) => UNCHANGED <<debounceTimer, timerDue>>
          /\ debounceTimer' => (now' <= timerDue' /\ timerDue' <= now' + DEBOUNCE_MS)]_vars
    /\ (debounceTimer ~> ~debounceTimer)

\* two inputs 70 ms apart, then 140 ms of silence: one recompute at 210 ms
\* with the text of the second input, which no officer matches
C35_Witness ==
    /\ lastCall.op = "rebuildSerenos"
    /\ \E t \in LoadInstants : now = t + 210
    /\ buscador = <<"7", "z">>
    /\ ~debounceTimer
    /\ Len(docsS) = 2 /\ capaSerenos = {}

\* the timer restarted by a second input is pending at the instant the
\* first one would have been due
C35_WitnessRestarted ==
    /\ debounceTimer
    /\ \E t \in LoadInstants : now = t + 140 /\ timerDue = t + 210
    /\ lastCall.op = "inputBuscador"

\* the recompute of the timer shows the officer the text matches
C35_WitnessMatch ==
    /\ lastCall.op = "rebuildSerenos"
    /\ buscador = <<"7">>
    /\ ~debounceTimer
    /\ turnoSerenos = "todos"
    /\ Len(docsS) = 2 /\ Cardinality(capaSerenos) = 1

====
